---- MODULE Spec2Model ----
(***************************************************************************)
(* A model of the vector-space retrieval pipeline of                       *)
(* COS738_BuscaMineracaoTexto (Trabalho_03 and Trabalho_04): the text      *)
(* normalizer, the inverse list generator, the TF-IDF indexer and the two  *)
(* search engines (additive score, cosine similarity).                     *)
(*                                                                         *)
(* Texts are sequences of one-character strings.  A Python dict is a       *)
(* sequence of [k, v] entries with pairwise distinct keys, in insertion    *)
(* order.  Floating point values are fixed-point integers: weights in      *)
(* units of 1/LogUnit, similarities in units of 1/SimUnit.  The stemmer    *)
(* (modules.porter_stemmer) is not part of the model: every run is a run   *)
(* without the STEMMER instruction.                                        *)
(***************************************************************************)
EXTENDS Integers, Sequences, FiniteSets, TLC

(***************************************************************************)
(* Sequences, sets                                                         *)
(***************************************************************************)
Range(s) == {s[i] : i \in 1..Len(s)}

Count(s, x) == Cardinality({i \in 1..Len(s) : s[i] = x})

Min(S) == CHOOSE x \in S : \A y \in S : x <= y

RECURSIVE SortedSeq(_)
\* sorted(set): the elements of a set of integers, ascending
SortedSeq(S) ==
    IF S = {} THEN <<>> ELSE <<Min(S)>> \o SortedSeq(S \ {Min(S)})

Head_n(s, n) == SubSeq(s, 1, IF Len(s) < n THEN Len(s) ELSE n)

\* TLC computes the argument of an operator when it is first read.  A loop
\* over the records reads its accumulator at every turn (Computed is always
\* true), so that no turn is left to be computed inside the next one.
Computed(x) == x = x

(***************************************************************************)
(* State of the normalizer                                                 *)
(***************************************************************************)
VARIABLES
    stopwords_txt,  \* the lines of the file STOPWORDS.txt
    calls           \* the calls of Tools.sanitize made so far, with what they returned

\* the normalizer and its file
tools_vars == <<stopwords_txt, calls>>

(***************************************************************************)
(* Characters and str methods                                              *)
(***************************************************************************)
\* "U+0447" and "U+0427" name one character each: the Cyrillic letter che,
\* small and capital
LowerChars == <<"a", "c", "d", "e", "g", "h", "o", "s", "t", "U+0447">>
UpperChars == <<"A", "C", "D", "E", "G", "H", "O", "S", "T", "U+0427">>
DigitChars == {"0", "1", "2"}
SpaceChars == {" ", "\n"}
\* the character class of the regular expression of sanitize
PunctChars04 == {".", ",", ";", ":", "?", "!", "\\", "/", "+", ">", "<", "=",
                 "[", "]", "-", "\"", "'", "_", "(", ")", "%"}
PunctChars03 == {".", ",", ";", ":", "?", "!", "[", "]", "-", "\"", "'", "_",
                 "(", ")", "%"}

AlphaChars == Range(LowerChars) \cup Range(UpperChars)

\* str.upper() on one character
char_upper(c) ==
    IF c \in Range(LowerChars)
    THEN UpperChars[CHOOSE i \in 1..Len(LowerChars) : LowerChars[i] = c]
    ELSE c

upper(s) == [i \in 1..Len(s) |-> char_upper(s[i])]

\* str.replace(old, " ") for a one-character old
replace_sp(s, old) == [i \in 1..Len(s) |-> IF s[i] = old THEN " " ELSE s[i]]

\* unidecode() on one character: ASCII is left as it is, a Cyrillic che is
\* written "Ch" or "ch"
char_unidecode(c) ==
    IF c = "U+0427" THEN <<"C", "h">>
    ELSE IF c = "U+0447" THEN <<"c", "h">>
    ELSE <<c>>

RECURSIVE unidecode(_)
unidecode(s) ==
    IF s = <<>> THEN <<>> ELSE char_unidecode(Head(s)) \o unidecode(Tail(s))

RECURSIVE IntFrom(_, _)
IntFrom(s, n) ==
    IF s = <<>> THEN n
    ELSE IntFrom(Tail(s),
                 10 * n + (CASE Head(s) = "0" -> 0 [] Head(s) = "1" -> 1
                             [] Head(s) = "2" -> 2))

\* int() on a string of digits
int(s) == IntFrom(s, 0)

isalpha(s) == Len(s) > 0 /\ \A i \in 1..Len(s) : s[i] \in AlphaChars

isdigit(s) == Len(s) > 0 /\ \A i \in 1..Len(s) : s[i] \in DigitChars

RECURSIVE RunEnd(_, _)
\* the first index >= i of s that holds no whitespace (Len(s)+1 if none)
RunEnd(s, i) ==
    IF i > Len(s) \/ s[i] \notin SpaceChars THEN i ELSE RunEnd(s, i + 1)

RECURSIVE SubSpacesFrom(_, _)
SubSpacesFrom(s, i) ==
    IF i > Len(s) THEN <<>>
    ELSE IF s[i] \in SpaceChars /\ RunEnd(s, i) - i >= 2
         THEN <<" ">> \o SubSpacesFrom(s, RunEnd(s, i))
         ELSE <<s[i]>> \o SubSpacesFrom(s, i + 1)

\* re.sub(r"\s\s+", " ", s): a run of two or more whitespace characters
\* becomes one space
sub_spaces(s) == SubSpacesFrom(s, 1)

\* re.sub(r"[.,;:?!...]", " ", s)
sub_punct(s, punct) == [i \in 1..Len(s) |-> IF s[i] \in punct THEN " " ELSE s[i]]

RECURSIVE LastNonSpace(_, _)
LastNonSpace(s, i) ==
    IF i = 0 \/ s[i] \notin SpaceChars THEN i ELSE LastNonSpace(s, i - 1)

\* str.strip()
strip(s) ==
    LET a == RunEnd(s, 1)
        b == LastNonSpace(s, Len(s))
    IN  IF a > b THEN <<>> ELSE SubSeq(s, a, b)

RECURSIVE SepEnd(_, _, _)
\* the first index >= i of s that holds a character of seps (Len(s)+1 if none)
SepEnd(s, i, seps) ==
    IF i > Len(s) \/ s[i] \in seps THEN i ELSE SepEnd(s, i + 1, seps)

RECURSIVE SplitFrom(_, _)
SplitFrom(s, i) ==
    LET j == SepEnd(s, i, {" "})
    IN  IF j > Len(s) THEN <<SubSeq(s, i, Len(s))>>
        ELSE <<SubSeq(s, i, j - 1)>> \o SplitFrom(s, j + 1)

\* str.split(" "): every single space separates, empty strings are kept
split_sp(s) == SplitFrom(s, 1)

RECURSIVE SplitWsFrom(_, _)
SplitWsFrom(s, i) ==
    LET a == RunEnd(s, i)
        b == SepEnd(s, a, SpaceChars)
    IN  IF a > Len(s) THEN <<>>
        ELSE <<SubSeq(s, a, b - 1)>> \o SplitWsFrom(s, b)

\* str.split(): runs of whitespace separate, no empty string is returned
split(s) == SplitWsFrom(s, 1)

RECURSIVE join(_)
\* " ".join(words)
join(words) ==
    IF words = <<>> THEN <<>>
    ELSE IF Len(words) = 1 THEN words[1]
    ELSE words[1] \o <<" ">> \o join(Tail(words))

(***************************************************************************)
(* Tools                                                                   *)
(***************************************************************************)
\* Tools.get_stopwords: the lines of STOPWORDS.txt, read at every call
get_stopwords == stopwords_txt

RECURSIVE RemoveStopwords(_, _, _)
\* for stopword in stopwords: text = list(filter((stopword).__ne__, text))
RemoveStopwords(text, stopwords, i) ==
    IF i > Len(stopwords) THEN text
    ELSE RemoveStopwords(SelectSeq(text, LAMBDA w : w # stopwords[i]),
                         stopwords, i + 1)

\* Trabalho_04 Tools.sanitize(string, remove_stopwords, use_stemmer = False)
sanitize(string, remove_stopwords) ==
    LET base == strip(sub_punct(
                    sub_spaces(unidecode(upper(replace_sp(string, "\n")))),
                    PunctChars04))
    IN  IF ~remove_stopwords THEN base
        ELSE LET t1 == RemoveStopwords(split_sp(base), get_stopwords, 1)
                 t2 == SelectSeq(t1, isalpha)
                 t3 == SelectSeq(t2, LAMBDA x : Len(x) > 2)
             IN  sub_spaces(strip(join(t3)))

\* Trabalho_03 Tools.sanitize(string, remove_stopwords)
sanitize03(string, remove_stopwords) ==
    LET base == strip(sub_punct(
                    sub_spaces(unidecode(upper(replace_sp(string, "\n")))),
                    PunctChars03))
    IN  IF ~remove_stopwords THEN base
        ELSE LET t1 == RemoveStopwords(split_sp(base), get_stopwords, 1)
                 t2 == SelectSeq(t1, LAMBDA x : ~isdigit(x))
                 t3 == SelectSeq(t2, LAMBDA x : Len(x) > 2)
             IN  sub_spaces(strip(join(t3)))

(***************************************************************************)
(* dict                                                                    *)
(***************************************************************************)
DictHas(d, key) == \E i \in 1..Len(d) : d[i].k = key

DictIndex(d, key) == CHOOSE i \in 1..Len(d) : d[i].k = key

DictGet(d, key) == d[DictIndex(d, key)].v

\* d[key] = value: a new key goes last, a known key keeps its place
DictSet(d, key, value) ==
    IF DictHas(d, key)
    THEN [d EXCEPT ![DictIndex(d, key)] = [k |-> key, v |-> value]]
    ELSE Append(d, [k |-> key, v |-> value])

DictKeys(d) == [i \in 1..Len(d) |-> d[i].k]

(***************************************************************************)
(* XML, FileXML: a document is a sequence of RECORD elements, a record     *)
(* has a RECORDNUM and the lists of its ABSTRACT and EXTRACT elements      *)
(***************************************************************************)
\* Trabalho_04 XML.get_text on the text of one element
get_text(joined, extra_sanitizing) ==
    LET j == IF extra_sanitizing THEN sanitize(joined, FALSE) ELSE joined
    IN  strip(sub_spaces(unidecode(upper(
            replace_sp(replace_sp(j, "\n"), ";")))))

\* Trabalho_03 XML.get_text
get_text03(joined, extra_sanitizing) ==
    LET j == IF extra_sanitizing THEN sanitize03(joined, FALSE) ELSE joined
    IN  strip(sub_spaces(unidecode(upper(
            replace_sp(replace_sp(j, "\n"), ";")))))

RECURSIVE RecordsDataFromExtractFirst(_, _, _, _)
\* a loop that takes the EXTRACT of a record and falls back on its ABSTRACT
RecordsDataFromExtractFirst(document, i, records_dict, v03) ==
    IF i > Len(document) \/ ~Computed(records_dict) THEN records_dict
    ELSE LET record == document[i]
             text(t) == IF v03 THEN get_text03(t, TRUE) ELSE get_text(t, TRUE)
         IN  IF record.EXTRACT # <<>>
             THEN RecordsDataFromExtractFirst(document, i + 1,
                      DictSet(records_dict, record.RECORDNUM,
                              text(record.EXTRACT[1])), v03)
             ELSE IF record.ABSTRACT # <<>>
             THEN RecordsDataFromExtractFirst(document, i + 1,
                      DictSet(records_dict, record.RECORDNUM,
                              text(record.ABSTRACT[1])), v03)
             ELSE RecordsDataFromExtractFirst(document, i + 1, records_dict, v03)

RECURSIVE RecordsDataFrom(_, _, _, _)
RecordsDataFrom(document, i, records_dict, v03) ==
    IF i > Len(document) \/ ~Computed(records_dict) THEN records_dict
    ELSE LET record == document[i]
             text(t) == IF v03 THEN get_text03(t, TRUE) ELSE get_text(t, TRUE)
         IN  IF record.ABSTRACT # <<>>
             THEN RecordsDataFrom(document, i + 1,
                      DictSet(records_dict, record.RECORDNUM,
                              text(record.ABSTRACT[1])), v03)
             ELSE IF record.EXTRACT # <<>>
             THEN RecordsDataFrom(document, i + 1,
                      DictSet(records_dict, record.RECORDNUM,
                              text(record.EXTRACT[1])), v03)
             ELSE RecordsDataFrom(document, i + 1, records_dict, v03)

\* Trabalho_04 FileXML.get_records_data
get_records_data(document) == RecordsDataFrom(document, 1, <<>>, FALSE)

\* Trabalho_03 FileXML.get_records_data
get_records_data03(document) == RecordsDataFrom(document, 1, <<>>, TRUE)

(***************************************************************************)
(* ILGTools                                                                *)
(***************************************************************************)
\* a posting list kept as a set: a record is listed once per word
AppendPostingOnce(words_dict, word, record_num) ==
    IF DictHas(words_dict, word)
    THEN IF record_num \in Range(DictGet(words_dict, word)) THEN words_dict
         ELSE DictSet(words_dict, word,
                      Append(DictGet(words_dict, word), record_num))
    ELSE DictSet(words_dict, word, <<record_num>>)

\* try: words_dict[word].append(record_num)
\* except KeyError: words_dict[word] = [record_num]
AppendPosting(words_dict, word, record_num) ==
    IF DictHas(words_dict, word)
    THEN DictSet(words_dict, word, Append(DictGet(words_dict, word), record_num))
    ELSE DictSet(words_dict, word, <<record_num>>)

RECURSIVE AddWords(_, _, _, _)
\* for word in text.split(): ... of create_words_dict
AddWords(words_dict, words, i, record_num) ==
    IF i > Len(words) \/ ~Computed(words_dict) THEN words_dict
    ELSE IF isdigit(words[i]) \/ Len(words[i]) < 3
         THEN AddWords(words_dict, words, i + 1, record_num)
         ELSE AddWords(AppendPosting(words_dict, words[i], record_num),
                       words, i + 1, record_num)

RECURSIVE CreateWordsFrom(_, _, _)
CreateWordsFrom(records_dict, i, words_dict) ==
    IF i > Len(records_dict) \/ ~Computed(words_dict) THEN words_dict
    ELSE CreateWordsFrom(records_dict, i + 1,
             AddWords(words_dict, split(sanitize(records_dict[i].v, TRUE)), 1,
                      records_dict[i].k))

\* ILGTools.create_words_dict(records_dict, use_steemer = False)
create_words_dict(records_dict) == CreateWordsFrom(records_dict, 1, <<>>)

RECURSIVE InsertByLen(_, _)
\* e goes behind every entry whose list is at least as long as its own
InsertByLen(sorted, e) ==
    IF sorted = <<>> THEN <<e>>
    ELSE IF Len(Head(sorted).v) >= Len(e.v)
         THEN <<Head(sorted)>> \o InsertByLen(Tail(sorted), e)
         ELSE <<e>> \o sorted

RECURSIVE InsertBeforeEqual(_, _)
\* e goes in front of the entries whose list is as long as its own
InsertBeforeEqual(sorted, e) ==
    IF sorted = <<>> THEN <<e>>
    ELSE IF Len(Head(sorted).v) > Len(e.v)
         THEN <<Head(sorted)>> \o InsertBeforeEqual(Tail(sorted), e)
         ELSE <<e>> \o sorted

RECURSIVE SortByLenUnstable(_, _, _)
SortByLenUnstable(words_dict, i, sorted) ==
    IF i > Len(words_dict) THEN sorted
    ELSE SortByLenUnstable(words_dict, i + 1,
             InsertBeforeEqual(sorted, words_dict[i]))

\* a sort by length that turns equal lengths around
sort_words_dict_unstable(words_dict) == SortByLenUnstable(words_dict, 1, <<>>)

RECURSIVE SortByLenFrom(_, _, _)
SortByLenFrom(words_dict, i, sorted) ==
    IF i > Len(words_dict) THEN sorted
    ELSE SortByLenFrom(words_dict, i + 1, InsertByLen(sorted, words_dict[i]))

\* ILGTools.sort_words_dict: sorted(words_dict, key = len of the list,
\* reverse = True); Python's sort is stable, also with reverse
sort_words_dict(words_dict) == SortByLenFrom(words_dict, 1, <<>>)

(***************************************************************************)
(* TFIDF, IndexTools                                                       *)
(***************************************************************************)
\* a float is an integer number of 1/LogUnit
LogUnit == 100

\* round(LogUnit * ln n), n = 1..64
LnTable ==
    <<0, 69, 110, 139, 161, 179, 195, 208, 220, 230, 240, 248, 256, 264, 271,
      277, 283, 289, 294, 300, 304, 309, 314, 318, 322, 326, 330, 333, 337,
      340, 343, 347, 350, 353, 356, 358, 361, 364, 366, 369, 371, 374, 376,
      378, 381, 383, 385, 387, 389, 391, 393, 395, 397, 399, 401, 403, 404,
      406, 408, 409, 411, 413, 414, 416>>

\* np.log(a / b) for integers a, b >= 1
np_log(a, b) == LnTable[a] - LnTable[b]

\* a weight that is 1 + ln tf where the term occurs, whatever its df
get_tf_idf_no_idf(frequency, total_docs, docs_with_term) ==
    IF frequency = 0 THEN 0 ELSE LogUnit + np_log(frequency, 1)

\* a weight whose second factor is ln(df / N)
get_tf_idf_inverted(frequency, total_docs, docs_with_term) ==
    IF frequency = 0 THEN 0
    ELSE ((LogUnit + np_log(frequency, 1))
            * np_log(docs_with_term, total_docs)) \div LogUnit

\* a weight whose second factor is ln(1 + df), larger for the commoner term
get_tf_idf_common(frequency, total_docs, docs_with_term) ==
    IF frequency = 0 THEN 0
    ELSE ((LogUnit + np_log(frequency, 1))
            * np_log(docs_with_term + 1, 1)) \div LogUnit

\* Trabalho_04 TFIDF.get_tf_idf
get_tf_idf(frequency, total_docs, docs_with_term) ==
    IF frequency = 0 THEN 0
    ELSE ((LogUnit + np_log(frequency, 1))
            * np_log(total_docs, docs_with_term)) \div LogUnit

\* Trabalho_03 TFIDF.get_tf_idf
get_tf_idf03(frequency, total_docs, docs_with_term) ==
    IF frequency = 0 THEN 0
    ELSE LogUnit + (np_log(frequency, 1)
                      * np_log(total_docs, docs_with_term)) \div LogUnit

RECURSIVE TermCountFrom(_, _, _)
\* term_count = {i: j for _, (i, j) in dataframe.iterrows()}
TermCountFrom(dataframe, i, term_count) ==
    IF i > Len(dataframe) THEN term_count
    ELSE TermCountFrom(dataframe, i + 1,
             DictSet(term_count, dataframe[i].k, dataframe[i].v))

RECURSIVE Flatten(_)
Flatten(lists) == IF lists = <<>> THEN <<>> ELSE Head(lists) \o Flatten(Tail(lists))

RECURSIVE Distinct(_, _)
\* the elements of s in the order they first come in
Distinct(s, seen) ==
    IF s = <<>> THEN <<>>
    ELSE IF Head(s) \in seen THEN Distinct(Tail(s), seen)
    ELSE <<Head(s)>> \o Distinct(Tail(s), seen \cup {Head(s)})

\* the documents in the order the lists name them, not sorted
AllDocumentsUnsorted(dataframe) ==
    Distinct(Flatten([i \in 1..Len(dataframe) |-> dataframe[i].v]), {})

\* all_documents: the set of the documents of every list, then sorted
AllDocuments(dataframe) ==
    SortedSeq(UNION {Range(dataframe[i].v) : i \in 1..Len(dataframe)})

\* the Term x Document matrix of a Word;RecordNumbers table: the sorted
\* documents are the columns, a row is a Term and its weight per column
TermDocumentMatrix(dataframe, v03) ==
    LET all_documents == AllDocuments(dataframe)
        total_docs == Len(all_documents)
        term_count == TermCountFrom(dataframe, 1, <<>>)
        weight(f, n, d) == IF v03 THEN get_tf_idf03(f, n, d)
                           ELSE get_tf_idf(f, n, d)
        row(e) ==
            LET docs_with_term == Cardinality(Range(e.v))
            IN  [Term |-> e.k,
                 w |-> [j \in 1..total_docs |->
                          weight(Count(e.v, all_documents[j]), total_docs,
                                 docs_with_term)]]
    IN  [columns |-> all_documents,
         rows |-> [i \in 1..Len(term_count) |-> row(term_count[i])]]

\* Trabalho_04 IndexTools.create_term_document_matrix
create_term_document_matrix(dataframe) == TermDocumentMatrix(dataframe, FALSE)

\* Trabalho_03 Indexer.__run, from "Get unique documents" to pd.concat
create_matrix03(dataframe) == TermDocumentMatrix(dataframe, TRUE)

(***************************************************************************)
(* pandas: selecting rows and columns, sort_values                         *)
(***************************************************************************)
\* model.loc[model["Term"] == term]
RowsOf(matrix, term) == SelectSeq(matrix.rows, LAMBDA r : r.Term = term)

HasColumn(matrix, doc) == \E j \in 1..Len(matrix.columns) : matrix.columns[j] = doc

ColumnIndex(matrix, doc) ==
    CHOOSE j \in 1..Len(matrix.columns) : matrix.columns[j] = doc

\* frame[["Term", doc]]: the rows cut down to the Term and one weight
TermColumn(matrix, doc) ==
    [i \in 1..Len(matrix.rows) |->
        [Term |-> matrix.rows[i].Term,
         w |-> matrix.rows[i].w[ColumnIndex(matrix, doc)]]]

RECURSIVE InsertDescending(_, _, _)
\* rows come in the order of the frame; kind "first" leaves equal scores in
\* that order, kind "last" leaves them in the opposite order
InsertDescending(sorted, e, kind) ==
    IF sorted = <<>> THEN <<e>>
    ELSE IF Head(sorted).score > e.score
            \/ (kind = "first" /\ Head(sorted).score = e.score)
         THEN <<Head(sorted)>> \o InsertDescending(Tail(sorted), e, kind)
         ELSE <<e>> \o sorted

RECURSIVE SortValuesFrom(_, _, _, _)
SortValuesFrom(rows, i, sorted, kind) ==
    IF i > Len(rows) \/ ~Computed(sorted) THEN sorted
    ELSE SortValuesFrom(rows, i + 1, InsertDescending(sorted, rows[i], kind), kind)

RECURSIVE Reverse(_)
Reverse(s) == IF s = <<>> THEN <<>> ELSE Reverse(Tail(s)) \o <<Head(s)>>

\* sort_values(ascending = True)
sort_values_ascending(rows, kind) == Reverse(SortValuesFrom(rows, 1, <<>>, kind))

\* sort_values(ascending = False) with the default kind, "quicksort", which
\* numpy does not promise to be stable: what a build does with equal scores
\* is the parameter kind
sort_values(rows, kind) == SortValuesFrom(rows, 1, <<>>, kind)

(***************************************************************************)
(* TFIDF.get_document_similarity_tf_idf                                    *)
(***************************************************************************)
\* a similarity is an integer number of 1/SimUnit
SimUnit == 1000

RECURSIVE SqrtBetween(_, _, _)
SqrtBetween(n, lo, hi) ==
    IF lo >= hi THEN lo
    ELSE LET mid == (lo + hi + 1) \div 2
         IN  IF mid * mid <= n THEN SqrtBetween(n, mid, hi)
             ELSE SqrtBetween(n, lo, mid - 1)

\* np.sqrt, rounded down to the unit
np_sqrt(n) == SqrtBetween(n, 0, IF n < 46340 THEN n ELSE 46340)

RECURSIVE SimilaritySumsQueryFirst(_, _, _, _, _, _)
\* a loop that adds the weight of the query to its length before it looks
\* the term up in the model
SimilaritySumsQueryFirst(model, query_index, doc_number, sanitized_query, i, acc) ==
    IF i > Len(sanitized_query) THEN acc
    ELSE LET term == sanitized_query[i]
             q_rows == SelectSeq(query_index, LAMBDA r : r.Term = term)
             d_rows == RowsOf(model, term)
         IN  IF q_rows = <<>> \/ ~HasColumn(model, doc_number)
             THEN SimilaritySumsQueryFirst(model, query_index, doc_number,
                                           sanitized_query, i + 1, acc)
             ELSE LET query_w == q_rows[1].w
                      doc_w == IF d_rows = <<>> THEN 0
                               ELSE d_rows[1].w[ColumnIndex(model, doc_number)]
                  IN  SimilaritySumsQueryFirst(model, query_index, doc_number,
                          sanitized_query, i + 1,
                          [scalar_prod |-> acc.scalar_prod + query_w * doc_w,
                           length_q |-> acc.length_q + query_w * query_w,
                           length_w |-> acc.length_w + doc_w * doc_w])

RECURSIVE SimilaritySums(_, _, _, _, _, _)
\* the loop over sanitized_query: a term missing from the query index or
\* from the model raises inside the try and is passed over
SimilaritySums(model, query_index, doc_number, sanitized_query, i, acc) ==
    IF i > Len(sanitized_query) THEN acc
    ELSE LET term == sanitized_query[i]
             q_rows == SelectSeq(query_index, LAMBDA r : r.Term = term)
             d_rows == RowsOf(model, term)
         IN  IF q_rows = <<>> \/ d_rows = <<>> \/ ~HasColumn(model, doc_number)
             THEN SimilaritySums(model, query_index, doc_number,
                                 sanitized_query, i + 1, acc)
             ELSE LET query_w == q_rows[1].w
                      doc_w == d_rows[1].w[ColumnIndex(model, doc_number)]
                  IN  SimilaritySums(model, query_index, doc_number,
                          sanitized_query, i + 1,
                          [scalar_prod |-> acc.scalar_prod + query_w * doc_w,
                           length_q |-> acc.length_q + query_w * query_w,
                           length_w |-> acc.length_w + doc_w * doc_w])

\* a similarity whose denominator is the squared length of the query
similarity_query_length_twice(model, query_index, doc_number, sanitized_query) ==
    LET acc == SimilaritySums(model, query_index, doc_number, sanitized_query, 1,
                   [scalar_prod |-> 0, length_q |-> 0, length_w |-> 0])
        length == np_sqrt(acc.length_q) * np_sqrt(acc.length_q)
    IN  IF length > 0 THEN (acc.scalar_prod * SimUnit) \div length ELSE 0

get_document_similarity_tf_idf(model, query_index, doc_number, sanitized_query) ==
    LET acc == SimilaritySums(model, query_index, doc_number, sanitized_query, 1,
                   [scalar_prod |-> 0, length_q |-> 0, length_w |-> 0])
        length == np_sqrt(acc.length_q) * np_sqrt(acc.length_w)
    IN  IF length > 0 THEN (acc.scalar_prod * SimUnit) \div length ELSE 0

(***************************************************************************)
(* SearchEngine: the work on one row of the queries table                  *)
(***************************************************************************)
\* the rows cut off by head(40)
TopK == 40

\* every query weighed with the column of the first query of the table
QueryResultsFirstColumn(model, queries_index, query_number, sanitized_query) ==
    [j \in 1..Len(model.columns) |->
        [index |-> j - 1,
         doc |-> model.columns[j],
         score |-> get_document_similarity_tf_idf(
                       model, TermColumn(queries_index, queries_index.columns[1]),
                       model.columns[j], sanitized_query)]]

\* Trabalho_04 SearchEngine.__run: query_results, a row per document column
QueryResults(model, queries_index, query_number, sanitized_query) ==
    [j \in 1..Len(model.columns) |->
        [index |-> j - 1,
         doc |-> model.columns[j],
         score |-> get_document_similarity_tf_idf(
                       model, TermColumn(queries_index, query_number),
                       model.columns[j], sanitized_query)]]

\* head(40) taken before the sort
RankedResultsHeadFirst(query_results, kind) ==
    LET kept == sort_values(Head_n(
                    SelectSeq(query_results, LAMBDA r : r.score > 0), TopK), kind)
    IN  [i \in 1..Len(kept) |-> <<i - 1, kept[i].index, kept[i].doc, kept[i].score>>]

\* query_results.loc[query_results[1] > 0].sort_values(by = 1,
\*     ascending = False).head(40).reset_index().itertuples(name = None)
RankedResults(query_results, kind) ==
    LET kept == Head_n(sort_values(
                    SelectSeq(query_results, LAMBDA r : r.score > 0), kind), TopK)
    IN  [i \in 1..Len(kept) |-> <<i - 1, kept[i].index, kept[i].doc, kept[i].score>>]

\* KeyError: queries_index has no column of this query, or query_results
\* has no column 1 because the model has no document
CosineRaises(model, queries_index, query_number) ==
    Len(model.columns) = 0 \/ ~HasColumn(queries_index, query_number)

RECURSIVE ScoreFromOnce(_, _, _, _)
\* a loop that adds the row of a word at its first occurrence only
ScoreFromOnce(model, words, i, score) ==
    IF i > Len(words) THEN score
    ELSE LET term == RowsOf(model, words[i])
         IN  IF term = <<>> \/ (\E n \in 1..(i - 1) : words[n] = words[i])
             THEN ScoreFromOnce(model, words, i + 1, score)
             ELSE ScoreFromOnce(model, words, i + 1,
                      [j \in 1..Len(model.columns) |->
                          (IF score = <<>> THEN 0 ELSE score[j]) + term[1].w[j]])

RECURSIVE ScoreFrom(_, _, _, _)
\* score = score.add(term.iloc[0, 1:], fill_value = 0) for the words the
\* model has a row of; the others raise IndexError and are passed over
ScoreFrom(model, words, i, score) ==
    IF i > Len(words) THEN score
    ELSE LET term == RowsOf(model, words[i])
         IN  IF term = <<>> THEN ScoreFrom(model, words, i + 1, score)
             ELSE ScoreFrom(model, words, i + 1,
                      [j \in 1..Len(model.columns) |->
                          (IF score = <<>> THEN 0 ELSE score[j]) + term[1].w[j]])

\* SearchEngine.search of Trabalho_03 and of old_search_engine, on the
\* words of the sanitized query
search(model, words, kind) ==
    LET score == ScoreFrom(model, words, 1, <<>>)
        series == [j \in 1..Len(score) |->
                      [index |-> j - 1, doc |-> model.columns[j], score |-> score[j]]]
    IN  sort_values(SelectSeq(series, LAMBDA r : r.score > 0), kind)

\* result_tuples of the additive engines
ResultTuples(search_results) ==
    [i \in 1..Len(search_results) |->
        <<i, search_results[i].doc, search_results[i].score>>]

(***************************************************************************)
(* InverseListGenerator.__run: the loops that fill words_dict              *)
(***************************************************************************)
RECURSIVE MergeWords(_, _, _)
\* try: words_dict[key] += value
\* except KeyError: words_dict[key] = value
MergeWords(words_dict, xml_words_dict, i) ==
    IF i > Len(xml_words_dict) THEN words_dict
    ELSE LET key == xml_words_dict[i].k
             value == xml_words_dict[i].v
         IN  MergeWords(
                 IF DictHas(words_dict, key)
                 THEN DictSet(words_dict, key, DictGet(words_dict, key) \o value)
                 ELSE DictSet(words_dict, key, value),
                 xml_words_dict, i + 1)

RECURSIVE ExtractInputs(_, _, _)
\* Trabalho_04: for xml in self.__inputs
ExtractInputs(xmls, i, words_dict) ==
    IF i > Len(xmls) THEN words_dict
    ELSE ExtractInputs(xmls, i + 1,
             MergeWords(words_dict,
                        create_words_dict(get_records_data(xmls[i])), 1))

RECURSIVE AddWords03(_, _, _, _)
\* Trabalho_03: for word in abstract.split()
AddWords03(words_dict, words, i, record_num) ==
    IF i > Len(words) \/ ~Computed(words_dict) THEN words_dict
    ELSE IF isdigit(words[i]) \/ words[i] \in Range(get_stopwords)
            \/ Len(words[i]) < 3
         THEN AddWords03(words_dict, words, i + 1, record_num)
         ELSE AddWords03(AppendPosting(words_dict, words[i], record_num),
                         words, i + 1, record_num)

RECURSIVE AddRecords03(_, _, _)
AddRecords03(records_dict, i, words_dict) ==
    IF i > Len(records_dict) \/ ~Computed(words_dict) THEN words_dict
    ELSE AddRecords03(records_dict, i + 1,
             AddWords03(words_dict, split(records_dict[i].v), 1,
                        records_dict[i].k))

RECURSIVE ExtractInputs03(_, _, _)
\* Trabalho_03: for xml in self.__inputs
ExtractInputs03(xmls, i, words_dict) ==
    IF i > Len(xmls) THEN words_dict
    ELSE ExtractInputs03(xmls, i + 1,
             AddRecords03(get_records_data03(xmls[i]), 1, words_dict))

\* Trabalho_03: the sort written out in InverseListGenerator.__run
sorted_words_dict03(words_dict) == SortByLenFrom(words_dict, 1, <<>>)

RECURSIVE QueriesRecordsFrom(_, _, _)
\* queries_records_dict[query_number] = query_text
QueriesRecordsFrom(table, i, queries_records_dict) ==
    IF i > Len(table) THEN queries_records_dict
    ELSE QueriesRecordsFrom(table, i + 1,
             DictSet(queries_records_dict, table[i][1], table[i][2]))

\* a queries index with the weights of Trabalho_03's Indexer
CreateQueriesIndex03(table) ==
    create_matrix03(
        sort_words_dict(create_words_dict(QueriesRecordsFrom(table, 1, <<>>))))

\* SearchEngine.__run, "Create queries index"
CreateQueriesIndex(table) ==
    create_term_document_matrix(
        sort_words_dict(create_words_dict(QueriesRecordsFrom(table, 1, <<>>))))

(***************************************************************************)
(* FileQueryXML, QueryProcessor: a QUERY element has the text of its       *)
(* QueryNumber, the text of its QueryText and the Item elements of its     *)
(* Records, each with its text and its score attribute                     *)
(***************************************************************************)
get_query_number(element, v03) ==
    IF v03 THEN get_text03(element.QueryNumber, FALSE)
    ELSE get_text(element.QueryNumber, FALSE)

get_query_text(element, v03) ==
    IF v03 THEN get_text03(element.QueryText, FALSE)
    ELSE get_text(element.QueryText, FALSE)

RECURSIVE QueryResultFrom(_, _, _, _)
\* query_result[item] = score
QueryResultFrom(records, i, query_result, v03) ==
    IF i > Len(records) THEN query_result
    ELSE QueryResultFrom(records, i + 1,
             DictSet(query_result,
                     IF v03 THEN get_text03(records[i].item, FALSE)
                     ELSE get_text(records[i].item, FALSE),
                     records[i].score), v03)

get_query_results(element, v03) == QueryResultFrom(element.Items, 1, <<>>, v03)

\* votes = sum([int(i) > 0 for i in score])
Votes(score) == Cardinality({i \in 1..Len(score) : int(<<score[i]>>) > 0})

RECURSIVE str(_)
\* the decimal digits of an int that is not negative
str(n) ==
    LET digit == <<"0", "1", "2", "3", "4", "5", "6", "7", "8", "9">>[(n % 10) + 1]
    IN  IF n < 10 THEN <<digit>> ELSE Append(str(n \div 10), digit)

\* a line of the processed file is <<QueryNumber, QueryText>>, a line of the
\* expected file <<QueryNumber, DocNumber, DocVotes>>; the header line is
\* left out.  Trabalho_04 writes int(query_number), Trabalho_03 the text of
\* the QueryNumber element.
OutputNumber(query_number, v03) ==
    IF v03 THEN query_number ELSE str(int(query_number))

RECURSIVE ProcessQueries(_, _, _, _)
\* QueryProcessor._run: for query in queries
ProcessQueries(queries_elements, i, out, v03) ==
    IF i > Len(queries_elements) \/ ~Computed(out) THEN out
    ELSE LET query == queries_elements[i]
             query_number == OutputNumber(get_query_number(query, v03), v03)
             query_text == get_query_text(query, v03)
             query_result == get_query_results(query, v03)
         IN  ProcessQueries(queries_elements, i + 1,
                 [processed |-> Append(out.processed, <<query_number, query_text>>),
                  expected |-> out.expected \o
                      [n \in 1..Len(query_result) |->
                          <<query_number, query_result[n].k,
                            Votes(query_result[n].v)>>]],
                 v03)

\* pd.read_csv of the processed file: the QueryNumber column is read as int
read_queries(file) ==
    [i \in 1..Len(file) |->
        <<int(file[i][1]), file[i][2]>>]

(***************************************************************************)
(* ConfigParser: a configuration file is a sequence of lines, a line a     *)
(* sequence of characters; _data maps a key to a str or to a list of str   *)
(***************************************************************************)
\* no index: str.find found nothing, dict.get found no key
None == [type |-> "None"]

\* line.startswith("#")
startswith_hash(line) == line # <<>> /\ line[1] = "#"

\* line.replace('"', "")
replace_quotes(line) == SelectSeq(line, LAMBDA c : c # "\"")

\* line.find("#"): the index of the first "#", from 0, or -1
find_hash(line) ==
    IF \E i \in 1..Len(line) : line[i] = "#"
    THEN Min({i \in 1..Len(line) : line[i] = "#"}) - 1
    ELSE -1

\* ConfigParser._find_none: None or an int
_find_none(index) ==
    IF index = -1 THEN None ELSE [type |-> "int", value |-> index - 2]

\* text[:stop]
slice_to(text, stop) ==
    IF stop = None THEN text
    ELSE IF stop.value >= 0 THEN SubSeq(text, 1, Min({stop.value, Len(text)}))
    ELSE SubSeq(text, 1, Len(text) + stop.value)

RECURSIVE split_equals(_)
\* text.split("=")
split_equals(text) ==
    IF \A i \in 1..Len(text) : text[i] # "="
    THEN <<text>>
    ELSE LET at == Min({i \in 1..Len(text) : text[i] = "="})
         IN  <<SubSeq(text, 1, at - 1)>>
                 \o split_equals(SubSeq(text, at + 1, Len(text)))

\* a value of _data
Str(value) == [type |-> "str", value |-> value]
List(values) == [type |-> "list", value |-> values]
isinstance_list(x) == x.type = "list"
isinstance_str(x) == x.type = "str"

\* a loop body in which a key given again takes the place of the one before
parse_line_last(data, line) ==
    IF startswith_hash(line) THEN data
    ELSE LET parts == split_equals(slice_to(replace_quotes(line),
                                            _find_none(find_hash(line))))
         IN  IF Len(parts) # 2 THEN data
             ELSE IF parts[2] = <<>> THEN data
             ELSE DictSet(data, parts[1], Str(parts[2]))

\* ConfigParser._parse_data: the body of the loop over the lines.  The
\* unpacking of a split that has not two parts and an empty value raise
\* ValueError, which the loop logs before it goes on.
parse_line(data, line) ==
    IF startswith_hash(line) THEN data
    ELSE LET parts == split_equals(slice_to(replace_quotes(line),
                                            _find_none(find_hash(line))))
         IN  IF Len(parts) # 2 THEN data
             ELSE IF parts[2] = <<>> THEN data
             ELSE LET key == parts[1]
                      value == parts[2]
                  IN  IF DictHas(data, key)
                      THEN IF isinstance_list(DictGet(data, key))
                           THEN DictSet(data, key,
                                    List(Append(DictGet(data, key).value, value)))
                           ELSE DictSet(data, key,
                                    List(<<DictGet(data, key).value, value>>))
                      ELSE DictSet(data, key, Str(value))

RECURSIVE ParseFrom(_, _, _)
\* the whole loop of _parse_data
ParseFrom(lines, i, data) ==
    IF i > Len(lines) THEN data
    ELSE ParseFrom(lines, i + 1, parse_line(data, lines[i]))

\* ConfigParser.get
get(data, key) == IF DictHas(data, key) THEN DictGet(data, key) ELSE None

LEIA == <<"L", "E", "I", "A">>
ESCREVA == <<"E", "S", "C", "R", "E", "V", "A">>
STEMMER == <<"S", "T", "E", "M", "M", "E", "R">>

\* Indexer.__init__: self.files
IndexerFiles(data) == [input |-> get(data, LEIA), output |-> get(data, ESCREVA)]

\* InverseListGenerator.__init__: self.__use_stemmer, self.files
use_stemmer(data) == get(data, STEMMER) # None
InverseListFiles(data) ==
    [inputs |-> get(data, LEIA),
     output |-> IF use_stemmer(data) THEN get(data, STEMMER)
                ELSE get(data, ESCREVA)]

\* Indexer.__check_config: ValueError for a list; os.path.dirname(None)
\* raises TypeError
IndexerCheck(files) ==
    IF isinstance_list(files.input) THEN "ValueError"
    ELSE IF isinstance_list(files.output) THEN "ValueError"
    ELSE IF files.input = None \/ files.output = None THEN "TypeError"
    ELSE "checked"

\* InverseListGenerator.__check_config
InverseListCheck(files) ==
    IF isinstance_list(files.output) THEN "ValueError"
    ELSE IF files.inputs = None \/ files.output = None THEN "TypeError"
    ELSE "checked"

(***************************************************************************)
(* State of the stages                                                     *)
(***************************************************************************)
VARIABLES
    variant,        \* "T03" or "T04": the assignment whose programs run
    pc,             \* the stage to run next, "done" or "failed"
    has_run,        \* the has_run flag of each stage's instance
    outcome,        \* how the last invocation of each stage's run ended
    reruns,         \* the invocations of a run made after the constructor's
    qp_original,    \* QueryProcessor: the QUERY elements of the original file
    qp_processed,   \* QueryProcessor: the lines of self._processed
    qp_expected,    \* QueryProcessor: the lines of self._expected
    processed_file, \* the exported QueryNumber;QueryText file
    expected_file,  \* the exported QueryNumber;DocNumber;DocVotes file
    inputs,         \* the LEIA files of the inverse list generator, parsed
    ilg_inputs,     \* InverseListGenerator: self.__inputs
    ilg_output,     \* InverseListGenerator: the lines of self.__output
    words_dict,     \* InverseListGenerator.__run: words_dict before the sort
    inverse_list,   \* the exported Word;RecordNumbers file
    model,          \* the exported Term x Document matrix
    engine,         \* "cosine" (search_engine.py) or "additive"
    kind,           \* what this build's quicksort does with equal scores
    queries,        \* SearchEngine: self.__queries, <<QueryNumber, QueryText>> rows
    queries_index,  \* SearchEngine.__run: the queries' Term x Document matrix
    qi,             \* the row of the queries table the search loop is at
    query_results,  \* SearchEngine.__run: query_results of the last row searched
    results,        \* self.__results: [SearchNumber, Results] rows
    results_file,   \* the exported results file
    cfg_file,       \* the lines of GLI.CFG and of INDEX.CFG, by stage
    cfg_line,       \* ConfigParser._parse_data: the line the loop is at, by stage
    cfg_data,       \* ConfigParser._data, by stage
    cfg_at          \* how far the constructor of a stage got with its configuration

\* the run-once guards
guard_vars == <<has_run, outcome, reruns>>

\* the query processor
qp_vars == <<qp_original, qp_processed, qp_expected, processed_file, expected_file>>

\* the inverse list generator
ilg_vars == <<inputs, ilg_inputs, ilg_output, words_dict, inverse_list>>

\* the search engine
se_vars == <<engine, kind, queries, queries_index, qi, query_results, results,
             results_file>>

\* the configuration files and their parsers
config_vars == <<cfg_file, cfg_line, cfg_data, cfg_at>>

vars == <<variant, pc, tools_vars, guard_vars, qp_vars, ilg_vars, model, se_vars,
          config_vars>>

EmptyMatrix == [columns |-> <<>>, rows |-> <<>>]

(***************************************************************************)
(* Inputs                                                                  *)
(***************************************************************************)
\* bounds of the inputs
MaxDocs == 3
MaxQueries == 2

the == <<"t", "h", "e">>
cat == <<"c", "a", "t">>
sat == <<"s", "a", "t">>
dog == <<"d", "o", "g">>
sp == <<" ">>

\* what a RECORD may hold besides its RECORDNUM: both fields, an ABSTRACT,
\* an EXTRACT alone, an ABSTRACT none of whose words is alphabetic, of 3
\* characters or more and no stopword, no field
RecordBodies ==
    { [ABSTRACT |-> <<the \o sp \o cat \o sp \o sat>>, EXTRACT |-> <<dog>>],
      [ABSTRACT |-> <<the \o sp \o dog \o sp \o sat>>, EXTRACT |-> <<>>],
      [ABSTRACT |-> <<>>,
       EXTRACT |-> <<cat \o <<"-">> \o cat \o sp \o sp \o <<"1", "\n">>>>],
      [ABSTRACT |-> <<the \o <<" ", "a", "t", " ", "1", "2", " ", "c", "2", "t">>>>,
       EXTRACT |-> <<>>],
      [ABSTRACT |-> <<>>, EXTRACT |-> <<>>] }

Record(num, body) ==
    [RECORDNUM |-> num, ABSTRACT |-> body.ABSTRACT, EXTRACT |-> body.EXTRACT]

\* the record sets: records 1..n, each with a body
Corpora ==
    UNION { { [i \in 1..n |-> Record(i, b[i])] : b \in [1..n -> RecordBodies] }
            : n \in 0..MaxDocs }

\* one LEIA file, or two: the first record and the others
Splits(records) ==
    {<<records>>}
    \cup (IF Len(records) >= 2
          THEN {<<SubSeq(records, 1, 1), SubSeq(records, 2, Len(records))>>}
          ELSE {})

\* the QUERY elements an original queries file is made of
QueryPool ==
    << [QueryNumber |-> <<"0", "1">>, QueryText |-> cat,
        Items |-> << [item |-> <<"1">>, score |-> <<"2", "0">>] >>],
       [QueryNumber |-> <<"0", "2">>, QueryText |-> dog \o <<"\n">> \o sat \o sp \o dog,
        Items |-> << [item |-> <<"2">>, score |-> <<"1", "1">>],
                     [item |-> <<"1">>, score |-> <<"0", "0">>] >>],
       [QueryNumber |-> <<"1", "0">>, QueryText |-> the, Items |-> <<>>] >>

RECURSIVE SubSeqs(_)
\* the subsequences of a sequence
SubSeqs(s) ==
    IF s = <<>> THEN {<<>>}
    ELSE LET rest == SubSeqs(Tail(s))
         IN  rest \cup {<<Head(s)>> \o r : r \in rest}

QueryTables == {t \in SubSeqs(QueryPool) : Len(t) <= MaxQueries}

Stages == {"QueryProcessor", "InverseListGenerator", "Indexer", "SearchEngine"}

\* STOPWORDS.txt as the repository has it, cut down to one word
StopwordsFile == <<upper(the)>>

\* the state the constructors leave, before any run
Constructed ==
    /\ stopwords_txt = StopwordsFile
    /\ calls = <<>>
    /\ has_run = [s \in Stages |-> FALSE]
    /\ outcome = [s \in Stages |-> "none"]
    /\ reruns = 0
    /\ qp_processed = <<>>
    /\ qp_expected = <<>>
    /\ processed_file = <<>>
    /\ expected_file = <<>>
    /\ ilg_inputs = <<>>
    /\ ilg_output = <<>>
    /\ words_dict = <<>>
    /\ inverse_list = <<>>
    /\ model = EmptyMatrix
    /\ engine = "none"
    /\ kind = "none"
    /\ queries = <<>>
    /\ queries_index = EmptyMatrix
    /\ qi = 1
    /\ query_results = <<>>
    /\ results = <<>>
    /\ results_file = <<>>

\* the stages whose configuration is followed
ConfigStages == {"InverseListGenerator", "Indexer"}

\* a configuration file with one LEIA and one ESCREVA instruction
ValidFile == <<LEIA \o <<"=", "a">>, ESCREVA \o <<"=", "c">>>>

\* the configuration of every stage read and found valid
Configured ==
    /\ cfg_file = [s \in ConfigStages |-> ValidFile]
    /\ cfg_line = [s \in ConfigStages |-> Len(ValidFile) + 1]
    /\ cfg_data = [s \in ConfigStages |-> ParseFrom(ValidFile, 1, <<>>)]
    /\ cfg_at = [s \in ConfigStages |-> "checked"]

Init ==
    /\ variant \in {"T03", "T04"}
    /\ \E records \in Corpora : inputs \in Splits(records)
    /\ qp_original \in QueryTables
    /\ pc = "QueryProcessor"
    /\ Constructed
    /\ Configured

(***************************************************************************)
(* The stages.  Each constructor ends by calling the run of its stage;     *)
(* main.py builds QueryProcessor, InverseListGenerator, Indexer and        *)
(* SearchEngine in this order.                                             *)
(***************************************************************************)
\* a guard that never finds the stage run
already_run_never(stage) == FALSE

\* if self.__has_run: raise ValueError("... already run")
already_run(stage) == has_run[stage]

\* how an invocation of the run of a stage ended
Ends(stage, how) == outcome' = [outcome EXCEPT ![stage] = how]

\* self.__has_run = True
SetHasRun(stage) == has_run' = [has_run EXCEPT ![stage] = TRUE]

\* QueryProcessor._run after its guard; fails: export_processed raises OSError
QueryProcessor_run(fails) ==
    LET out == ProcessQueries(qp_original, 1,
                   [processed |-> qp_processed, expected |-> qp_expected],
                   variant = "T03")
    IN  /\ qp_processed' = out.processed
        /\ qp_expected' = out.expected
        /\ IF fails
           THEN /\ Ends("QueryProcessor", "OSError")
                /\ UNCHANGED <<processed_file, expected_file, has_run>>
           ELSE /\ processed_file' = qp_processed'
                /\ expected_file' = qp_expected'
                /\ SetHasRun("QueryProcessor")
                /\ Ends("QueryProcessor", "returned")
        /\ UNCHANGED qp_original

\* InverseListGenerator.__run after its guard; fails: export_output raises
\* OSError
InverseListGenerator_run(fails) ==
    /\ ilg_inputs' = ilg_inputs \o inputs
    /\ words_dict' = IF variant = "T03" THEN ExtractInputs03(ilg_inputs', 1, <<>>)
                     ELSE ExtractInputs(ilg_inputs', 1, <<>>)
    /\ ilg_output' = ilg_output \o
                     (IF variant = "T03" THEN sorted_words_dict03(words_dict')
                      ELSE sort_words_dict(words_dict'))
    /\ IF fails
       THEN /\ Ends("InverseListGenerator", "OSError")
            /\ UNCHANGED <<inverse_list, has_run>>
       ELSE /\ inverse_list' = ilg_output'
            /\ SetHasRun("InverseListGenerator")
            /\ Ends("InverseListGenerator", "returned")
    /\ UNCHANGED inputs

\* Indexer.__run after its guard
Indexer_run ==
    /\ model' = IF variant = "T03" THEN create_matrix03(inverse_list)
                ELSE create_term_document_matrix(inverse_list)
    /\ SetHasRun("Indexer")
    /\ Ends("Indexer", "returned")

\* SearchEngine.__run after its guard, up to "Starting searches"
SearchEngine_run ==
    /\ queries_index' = IF variant = "T03" THEN queries_index
                        ELSE CreateQueriesIndex(queries')
    /\ qi' = 1
    /\ pc' = "searching"
    /\ Ends("SearchEngine", "running")
    /\ UNCHANGED <<has_run, query_results, results, results_file>>

\* QueryProcessor(...) in main.py
QueryProcessorRun ==
    /\ pc = "QueryProcessor"
    /\ ~already_run("QueryProcessor")
    /\ QueryProcessor_run(FALSE)
    /\ pc' = "InverseListGenerator"
    /\ UNCHANGED <<variant, config_vars, tools_vars, reruns, ilg_vars, model, se_vars>>

\* Trabalho_04 InverseListGenerator(...) in main.py
InverseListGeneratorRun ==
    /\ pc = "InverseListGenerator"
    /\ variant = "T04"
    /\ ~already_run("InverseListGenerator")
    /\ InverseListGenerator_run(FALSE)
    /\ pc' = "Indexer"
    /\ UNCHANGED <<variant, config_vars, tools_vars, reruns, qp_vars, model, se_vars>>

\* Trabalho_03 InverseListGenerator(...) in main.py
InverseListGenerator03Run ==
    /\ pc = "InverseListGenerator"
    /\ variant = "T03"
    /\ ~already_run("InverseListGenerator")
    /\ InverseListGenerator_run(FALSE)
    /\ pc' = "Indexer"
    /\ UNCHANGED <<variant, config_vars, tools_vars, reruns, qp_vars, model, se_vars>>

\* Trabalho_04 Indexer(...) in main.py
IndexerRun ==
    /\ pc = "Indexer"
    /\ variant = "T04"
    /\ ~already_run("Indexer")
    /\ Indexer_run
    /\ pc' = "SearchEngine"
    /\ UNCHANGED <<variant, config_vars, tools_vars, reruns, qp_vars, ilg_vars, se_vars>>

\* Trabalho_03 Indexer(...) in main.py
Indexer03Run ==
    /\ pc = "Indexer"
    /\ variant = "T03"
    /\ ~already_run("Indexer")
    /\ Indexer_run
    /\ pc' = "SearchEngine"
    /\ UNCHANGED <<variant, config_vars, tools_vars, reruns, qp_vars, ilg_vars, se_vars>>

\* Trabalho_04 SearchEngine(...): the constructor reads the processed
\* queries, __run goes up to "Starting searches"
SearchEngineStart ==
    /\ pc = "SearchEngine"
    /\ variant = "T04"
    /\ engine' = "cosine"
    /\ kind' \in {"first", "last"}
    /\ queries' = read_queries(processed_file)
    /\ ~already_run("SearchEngine")
    /\ SearchEngine_run
    /\ UNCHANGED <<variant, config_vars, tools_vars, reruns, qp_vars, ilg_vars, model>>

\* Trabalho_04 old_search_engine SearchEngine(...)
OldSearchEngineStart ==
    /\ pc = "SearchEngine"
    /\ variant = "T04"
    /\ engine' = "additive"
    /\ kind' \in {"first", "last"}
    /\ queries' = read_queries(processed_file)
    /\ ~already_run("SearchEngine")
    /\ SearchEngine_run
    /\ UNCHANGED <<variant, config_vars, tools_vars, reruns, qp_vars, ilg_vars, model>>

\* Trabalho_03 SearchEngine(...)
SearchEngine03Start ==
    /\ pc = "SearchEngine"
    /\ variant = "T03"
    /\ engine' = "additive"
    /\ kind' \in {"first", "last"}
    /\ queries' = read_queries(processed_file)
    /\ ~already_run("SearchEngine")
    /\ SearchEngine_run
    /\ UNCHANGED <<variant, config_vars, tools_vars, reruns, qp_vars, ilg_vars, model>>

\* Trabalho_04 SearchEngine.__run: one turn of the loop over the queries
SearchStep ==
    /\ pc = "searching"
    /\ engine = "cosine"
    /\ qi <= Len(queries)
    /\ LET query_number == queries[qi][1]
           sanitized_query == split(sanitize(queries[qi][2], TRUE))
       IN  IF CosineRaises(model, queries_index, query_number)
           THEN /\ pc' = "failed"
                /\ Ends("SearchEngine", "KeyError")
                /\ UNCHANGED <<qi, query_results, results>>
           ELSE /\ query_results' = QueryResults(model, queries_index,
                                        query_number, sanitized_query)
                /\ results' = Append(results,
                       [SearchNumber |-> query_number,
                        Results |-> RankedResults(query_results', kind)])
                /\ qi' = qi + 1
                /\ pc' = pc
                /\ UNCHANGED outcome
    /\ UNCHANGED <<variant, config_vars, tools_vars, has_run, reruns, qp_vars, ilg_vars,
                   model, engine, kind, queries, queries_index, results_file>>

\* old_search_engine SearchEngine.__run: one turn of the loop over the queries
OldSearchStep ==
    /\ pc = "searching"
    /\ engine = "additive"
    /\ variant = "T04"
    /\ qi <= Len(queries)
    /\ results' = Append(results,
           [SearchNumber |-> queries[qi][1],
            Results |-> ResultTuples(search(model,
                            split(sanitize(queries[qi][2], TRUE)), kind))])
    /\ qi' = qi + 1
    /\ UNCHANGED <<variant, config_vars, pc, tools_vars, guard_vars, qp_vars, ilg_vars,
                   model, engine, kind, queries, queries_index, query_results,
                   results_file>>

\* Trabalho_03 SearchEngine.__run: one turn of the loop over the queries
Search03Step ==
    /\ pc = "searching"
    /\ engine = "additive"
    /\ variant = "T03"
    /\ qi <= Len(queries)
    /\ results' = Append(results,
           [SearchNumber |-> queries[qi][1],
            Results |-> ResultTuples(search(model,
                            split(sanitize03(queries[qi][2], TRUE)), kind))])
    /\ qi' = qi + 1
    /\ UNCHANGED <<variant, config_vars, pc, tools_vars, guard_vars, qp_vars, ilg_vars,
                   model, engine, kind, queries, queries_index, query_results,
                   results_file>>

\* SearchEngine.__run from "Finished searches": export_output, has_run
SearchExport ==
    /\ pc = "searching"
    /\ qi > Len(queries)
    /\ results_file' = results
    /\ SetHasRun("SearchEngine")
    /\ Ends("SearchEngine", "returned")
    /\ pc' = "done"
    /\ UNCHANGED <<variant, config_vars, tools_vars, reruns, qp_vars, ilg_vars, model,
                   engine, kind, queries, queries_index, qi, query_results,
                   results>>

Next ==
    \/ QueryProcessorRun
    \/ InverseListGeneratorRun
    \/ InverseListGenerator03Run
    \/ IndexerRun
    \/ Indexer03Run
    \/ SearchEngineStart
    \/ OldSearchEngineStart
    \/ SearchEngine03Start
    \/ SearchStep
    \/ OldSearchStep
    \/ Search03Step
    \/ SearchExport

Spec == Init /\ [][Next]_vars

(***************************************************************************)
(* The normalizer called on its own: Tools.sanitize on a text, on the same *)
(* text again and on what it returned, while the file STOPWORDS.txt may be *)
(* written between two calls                                               *)
(***************************************************************************)
\* bounds of the calls
MaxPieces == 2
MaxCalls == 2

\* what the texts are made of: a stopword, a word, a word of 2 characters,
\* a word with a digit, a word with the Cyrillic letter che, punctuation
Pieces ==
    { the, cat, <<"a", "t">>, <<"c", "2", "t">>, <<"U+0447", "a", "t">>, <<"-">> }

RECURSIVE Texts(_)
\* the texts of n pieces, a space or a line end between two
Texts(n) ==
    IF n = 1 THEN Pieces
    ELSE {t \o sep \o piece : t \in Texts(n - 1), sep \in {sp, <<"\n">>},
                               piece \in Pieces}

\* what STOPWORDS.txt may be rewritten to
StopwordFiles == {StopwordsFile, <<upper(the), upper(cat)>>}

InitSanitize ==
    /\ variant \in {"T03", "T04"}
    /\ inputs = <<>>
    /\ qp_original = <<>>
    /\ pc = "Tools"
    /\ Constructed
    /\ Configured

\* Tools.sanitize(string, remove_stopwords): the call is kept with the lines
\* get_stopwords read (none when remove_stopwords is off) and what it returned
SanitizeCall(string, remove_stopwords) ==
    /\ pc = "Tools"
    /\ Len(calls) < MaxCalls
    /\ calls' = Append(calls,
           [string |-> string,
            remove_stopwords |-> remove_stopwords,
            stopwords |-> IF remove_stopwords THEN get_stopwords ELSE <<>>,
            returned |-> IF variant = "T03"
                         THEN sanitize03(string, remove_stopwords)
                         ELSE sanitize(string, remove_stopwords)])
    /\ UNCHANGED <<variant, config_vars, pc, stopwords_txt, guard_vars, qp_vars, ilg_vars,
                   model, se_vars>>

\* a first call
SanitizeText ==
    /\ calls = <<>>
    /\ \E n \in 1..MaxPieces : \E string \in Texts(n) :
          \E remove_stopwords \in BOOLEAN : SanitizeCall(string, remove_stopwords)

\* the last call made again
SanitizeAgain ==
    /\ calls # <<>>
    /\ SanitizeCall(calls[Len(calls)].string, calls[Len(calls)].remove_stopwords)

\* a call on what the last call returned
SanitizeReturned ==
    /\ calls # <<>>
    /\ SanitizeCall(calls[Len(calls)].returned, calls[Len(calls)].remove_stopwords)

\* the host writes STOPWORDS.txt
WriteStopwords ==
    /\ pc = "Tools"
    /\ stopwords_txt' \in StopwordFiles \ {stopwords_txt}
    /\ UNCHANGED <<variant, config_vars, pc, calls, guard_vars, qp_vars, ilg_vars, model, se_vars>>

NextSanitize ==
    \/ SanitizeText
    \/ SanitizeAgain
    \/ SanitizeReturned
    \/ WriteStopwords

SpecSanitize == InitSanitize /\ [][NextSanitize]_vars

(***************************************************************************)
(* Runs invoked again.  The run of a stage is called by the constructor;   *)
(* here it is called again on the same instance when the pipeline is over, *)
(* and the export of the first two stages may fail on its file.            *)
(***************************************************************************)
\* bounds of the invocations
MaxRunDocs == 1
MaxReruns == 2

RunCorpora == {records \in Corpora : Len(records) <= MaxRunDocs}

InitRun ==
    /\ variant \in {"T03", "T04"}
    /\ \E records \in RunCorpora : inputs \in Splits(records)
    /\ qp_original \in QueryTables
    /\ pc = "QueryProcessor"
    /\ Constructed
    /\ Configured

\* QueryProcessor(...) in main.py, export_processed raising OSError
QueryProcessorRunFails ==
    /\ pc = "QueryProcessor"
    /\ ~already_run("QueryProcessor")
    /\ QueryProcessor_run(TRUE)
    /\ pc' = "failed"
    /\ UNCHANGED <<variant, config_vars, tools_vars, reruns, ilg_vars, model, se_vars>>

\* InverseListGenerator(...) in main.py, export_output raising OSError
InverseListGeneratorRunFails ==
    /\ pc = "InverseListGenerator"
    /\ ~already_run("InverseListGenerator")
    /\ InverseListGenerator_run(TRUE)
    /\ pc' = "failed"
    /\ UNCHANGED <<variant, config_vars, tools_vars, reruns, qp_vars, model, se_vars>>

\* the pipeline is over and the run of the stage has been invoked before
MayRunAgain(stage) ==
    /\ pc \in {"done", "failed"}
    /\ outcome[stage] \notin {"none", "running"}
    /\ reruns < MaxReruns

\* QueryProcessor.__run invoked again
QueryProcessorRunAgain ==
    /\ MayRunAgain("QueryProcessor")
    /\ reruns' = reruns + 1
    /\ IF already_run("QueryProcessor")
       THEN /\ Ends("QueryProcessor", "ValueError")
            /\ UNCHANGED <<has_run, qp_vars>>
       ELSE \E fails \in BOOLEAN : QueryProcessor_run(fails)
    /\ UNCHANGED <<variant, config_vars, pc, tools_vars, ilg_vars, model, se_vars>>

\* InverseListGenerator.__run invoked again
InverseListGeneratorRunAgain ==
    /\ MayRunAgain("InverseListGenerator")
    /\ reruns' = reruns + 1
    /\ IF already_run("InverseListGenerator")
       THEN /\ Ends("InverseListGenerator", "ValueError")
            /\ UNCHANGED <<has_run, ilg_vars>>
       ELSE \E fails \in BOOLEAN : InverseListGenerator_run(fails)
    /\ UNCHANGED <<variant, config_vars, pc, tools_vars, qp_vars, model, se_vars>>

\* Indexer.__run invoked again
IndexerRunAgain ==
    /\ MayRunAgain("Indexer")
    /\ reruns' = reruns + 1
    /\ IF already_run("Indexer")
       THEN /\ Ends("Indexer", "ValueError")
            /\ UNCHANGED <<has_run, model>>
       ELSE Indexer_run
    /\ UNCHANGED <<variant, config_vars, pc, tools_vars, qp_vars, ilg_vars, se_vars>>

\* SearchEngine.__run invoked again; self.__queries and self.__results are
\* those of the instance
SearchEngineRunAgain ==
    /\ MayRunAgain("SearchEngine")
    /\ reruns' = reruns + 1
    /\ UNCHANGED <<variant, config_vars, tools_vars, qp_vars, ilg_vars, model, engine, kind,
                   queries>>
    /\ IF already_run("SearchEngine")
       THEN /\ Ends("SearchEngine", "ValueError")
            /\ UNCHANGED <<pc, has_run, queries_index, qi, query_results,
                           results, results_file>>
       ELSE SearchEngine_run

NextRun ==
    \/ Next
    \/ QueryProcessorRunFails
    \/ InverseListGeneratorRunFails
    \/ QueryProcessorRunAgain
    \/ InverseListGeneratorRunAgain
    \/ IndexerRunAgain
    \/ SearchEngineRunAgain

SpecRun == InitRun /\ [][NextRun]_vars

(***************************************************************************)
(* Collections of more documents than head(40) keeps                       *)
(***************************************************************************)
\* bounds of the large collections
BigDocs == 41
BigZeros == 2

\* the ABSTRACTs the large collections are made of
BigTexts ==
    << dog, dog \o sp \o sat, dog \o sp \o dog \o sp \o sat, sat >>

\* the first zeros records are about cats, the others take the texts in
\* turn from the one at shift on
BigBody(i, shift, zeros) ==
    [ABSTRACT |-> <<IF i <= zeros THEN cat
                    ELSE BigTexts[((i + shift) % Len(BigTexts)) + 1]>>,
     EXTRACT |-> <<>>]

BigCorpora ==
    { [i \in 1..n |-> Record(i, BigBody(i, shift, zeros))] :
        n \in (BigDocs - 1)..(BigDocs + 1),
        shift \in 0..(Len(BigTexts) - 1),
        zeros \in 0..BigZeros }

InitTopK ==
    /\ variant \in {"T03", "T04"}
    /\ \E records \in BigCorpora : inputs = <<records>>
    /\ qp_original \in QueryTables
    /\ pc = "QueryProcessor"
    /\ Constructed
    /\ Configured

SpecTopK == InitTopK /\ [][Next]_vars

(***************************************************************************)
(* The constructors of InverseListGenerator and Indexer, from the parsing  *)
(* of the configuration file on: ConfigParser(...).params(), self.files,   *)
(* __check_config, __run                                                   *)
(***************************************************************************)
\* the lines of a configuration file, at most
MaxLines == 3

\* the lines the configuration files are made of: instructions, one with
\* its value in quotes, a comment, a line without "=", one without a value,
\* and an instruction followed by a comment
LinePool ==
    { LEIA \o <<"=", "a">>,
      ESCREVA \o <<"=", "c">>,
      ESCREVA \o <<"=", "\"", "d", "\"">>,
      <<"#">> \o ESCREVA \o <<"=", "e">>,
      ESCREVA,
      ESCREVA \o <<"=">>,
      STEMMER \o <<"=", "s">>,
      ESCREVA \o <<"=", "c", " ", "#", "x">> }

ConfigFiles == UNION {[1..n -> LinePool] : n \in 0..MaxLines}

\* the document of the file a LEIA instruction names
FileAt(path) ==
    IF path = <<"a">>
    THEN <<Record(1, [ABSTRACT |-> <<the \o sp \o cat \o sp \o sat>>,
                      EXTRACT |-> <<>>])>>
    ELSE <<>>

\* InverseListGenerator.__run: the files of self.files["inputs"]
InputsNamed(data) ==
    LET leia == get(data, LEIA)
    IN  IF leia = None THEN <<>>
        ELSE IF isinstance_str(leia) THEN <<FileAt(leia.value)>>
        ELSE [i \in 1..Len(leia.value) |-> FileAt(leia.value[i])]

\* one stage has a configuration file of the pool, the other a valid one
InitConfig ==
    /\ variant = "T04"
    /\ qp_original = <<>>
    /\ pc = "QueryProcessor"
    /\ Constructed
    /\ \E s \in ConfigStages : \E file \in ConfigFiles :
          cfg_file = [t \in ConfigStages |-> IF t = s THEN file ELSE ValidFile]
    /\ cfg_line = [s \in ConfigStages |-> 1]
    /\ cfg_data = [s \in ConfigStages |-> <<>>]
    /\ cfg_at = [s \in ConfigStages |-> "parsing"]
    /\ inputs = InputsNamed(ParseFrom(cfg_file["InverseListGenerator"], 1, <<>>))

\* what a step of a constructor before __run leaves alone
ConfigUnchanged ==
    UNCHANGED <<variant, tools_vars, guard_vars, qp_vars, ilg_vars, model, se_vars,
                cfg_file>>

\* ConfigParser._parse_data: one turn of the loop over the lines
ConfigParserParseLine ==
    /\ pc \in ConfigStages
    /\ cfg_at[pc] = "parsing"
    /\ cfg_line[pc] <= Len(cfg_file[pc])
    /\ cfg_data' = [cfg_data EXCEPT
                       ![pc] = parse_line(@, cfg_file[pc][cfg_line[pc]])]
    /\ cfg_line' = [cfg_line EXCEPT ![pc] = @ + 1]
    /\ UNCHANGED <<pc, cfg_at>>
    /\ ConfigUnchanged

\* the loop over the lines is over: params() returns _data
ConfigParserParams ==
    /\ pc \in ConfigStages
    /\ cfg_at[pc] = "parsing"
    /\ cfg_line[pc] > Len(cfg_file[pc])
    /\ cfg_at' = [cfg_at EXCEPT ![pc] = "parsed"]
    /\ UNCHANGED <<pc, cfg_line, cfg_data>>
    /\ ConfigUnchanged

\* InverseListGenerator.__init__: self.files and __check_config
InverseListGeneratorCheckConfig ==
    /\ pc = "InverseListGenerator"
    /\ cfg_at[pc] = "parsed"
    /\ LET checked == InverseListCheck(InverseListFiles(cfg_data[pc]))
       IN  /\ cfg_at' = [cfg_at EXCEPT ![pc] = checked]
           /\ pc' = IF checked = "checked" THEN pc ELSE "failed"
    /\ UNCHANGED <<cfg_line, cfg_data>>
    /\ ConfigUnchanged

\* Indexer.__init__: self.files and __check_config
IndexerCheckConfig ==
    /\ pc = "Indexer"
    /\ cfg_at[pc] = "parsed"
    /\ LET checked == IndexerCheck(IndexerFiles(cfg_data[pc]))
       IN  /\ cfg_at' = [cfg_at EXCEPT ![pc] = checked]
           /\ pc' = IF checked = "checked" THEN pc ELSE "failed"
    /\ UNCHANGED <<cfg_line, cfg_data>>
    /\ ConfigUnchanged

\* InverseListGenerator.__init__ from the check on: __run, without the
\* stemmer
InverseListGeneratorChecked ==
    /\ cfg_at["InverseListGenerator"] = "checked"
    /\ ~use_stemmer(cfg_data["InverseListGenerator"])
    /\ InverseListGeneratorRun

\* Indexer.__init__ from the check on: __run
IndexerChecked ==
    /\ cfg_at["Indexer"] = "checked"
    /\ IndexerRun

NextConfig ==
    \/ QueryProcessorRun
    \/ ConfigParserParseLine
    \/ ConfigParserParams
    \/ InverseListGeneratorCheckConfig
    \/ IndexerCheckConfig
    \/ InverseListGeneratorChecked
    \/ IndexerChecked

SpecConfig == InitConfig /\ [][NextConfig]_vars

(***************************************************************************)
(* Properties.  The statistics of the postings are those of the exported   *)
(* inverse list, counted as the specification defines them.  What a stage  *)
(* builds is looked at in the state the stage leaves, where pc names the   *)
(* stage that follows: no later stage writes it.                           *)
(***************************************************************************)
ModelBuilt == pc \notin {"InverseListGenerator", "Indexer"}

Searched == pc \in {"searching", "done", "failed"} /\ qi > 1

PostingList(i) == inverse_list[i].v

Universe == UNION {Range(PostingList(i)) : i \in 1..Len(inverse_list)}

TermFrequency(i, d) == Cardinality({n \in 1..Len(PostingList(i)) : PostingList(i)[n] = d})

DocumentFrequency(i) == Cardinality(Range(PostingList(i)))

RECURSIVE SeqSum(_)
SeqSum(s) == IF s = <<>> THEN 0 ELSE Head(s) + SeqSum(Tail(s))

\* (1 + ln tf) * ln(N / df), in units of 1/LogUnit
MultiplicativeWeight(f, n, df) ==
    IF f = 0 THEN 0
    ELSE ((LogUnit + LnTable[f]) * (LnTable[n] - LnTable[df])) \div LogUnit

\* C1: in the matrix of either assignment every cell is 0 where tf = 0 and
\* (1 + ln tf) * ln(N / df) elsewhere, N the number of distinct documents of
\* the posting lists and df the number of distinct documents of the term's
\* list.  Trabalho_03 computes 1 + ln tf * ln(N / df) instead.
C1_MultiplicativeEverywhere ==
    ModelBuilt =>
        /\ Len(model.rows) = Len(inverse_list)
        /\ \A i \in 1..Len(model.rows) : \A j \in 1..Len(model.columns) :
              model.rows[i].w[j] =
                  MultiplicativeWeight(TermFrequency(i, model.columns[j]),
                                       Cardinality(Universe),
                                       DocumentFrequency(i))

\* the tokens of the query searched last
LastQuery == queries[qi - 1]
LastTokens == split(sanitize(LastQuery[2], TRUE))

HasRow(matrix, term) == \E i \in 1..Len(matrix.rows) : matrix.rows[i].Term = term

FirstRow(matrix, term) ==
    matrix.rows[Min({i \in 1..Len(matrix.rows) : matrix.rows[i].Term = term})]

\* a token counts where both tables know its term
Weighted(t) == HasRow(queries_index, t) /\ HasRow(model, t)

QueryWeight(t) ==
    FirstRow(queries_index, t).w[ColumnIndex(queries_index, LastQuery[1])]

DocumentWeight(t, j) == FirstRow(model, t).w[j]

\* the sum of a(n) * b(n) over the indices of two sequences of one length
DotProduct(a, b) == SeqSum([n \in 1..Len(a) |-> a[n] * b[n]])

\* C2: the similarity of the query searched last and of each document is
\* scalarProduct / (queryNorm * docNorm) where that denominator is positive
\* and 0 elsewhere; the scalar product and the two squared norms are sums
\* over the same tokens of the query, one summand per occurrence of a token
\* both tables have a weight of.
C2_CosineFormula ==
    (engine = "cosine" /\ pc = "searching" /\ qi > 1) =>
        LET tokens == SelectSeq(LastTokens, Weighted)
            q == [n \in 1..Len(tokens) |-> QueryWeight(tokens[n])]
        IN  /\ Len(query_results) = Len(model.columns)
            /\ \A j \in 1..Len(query_results) :
                  LET d == [n \in 1..Len(tokens) |-> DocumentWeight(tokens[n], j)]
                      denominator ==
                          np_sqrt(DotProduct(q, q)) * np_sqrt(DotProduct(d, d))
                  IN  query_results[j].score =
                          IF denominator > 0
                          THEN (DotProduct(q, d) * SimUnit) \div denominator
                          ELSE 0

\* a query of two tokens has a similarity strictly between 0 and 1
C2_Witness ==
    /\ engine = "cosine" /\ pc = "searching" /\ qi > 1
    /\ Len(LastTokens) >= 2
    /\ \E j \in 1..Len(query_results) :
          query_results[j].score > 0 /\ query_results[j].score < SimUnit
    /\ \E j \in 1..Len(query_results) : query_results[j].score = 0

\* the score of an entry of a Results list is its last component
ScoreOf(entry) == entry[Len(entry)]

\* C3: every Results list, of the cosine engine and of the additive
\* engines, is non-increasing in score and holds no score <= 0.
C3_RankingOrder ==
    \A r \in 1..Len(results) :
        LET list == results[r].Results
        IN  \A i \in 1..Len(list) :
               /\ ScoreOf(list[i]) > 0
               /\ i < Len(list) => ScoreOf(list[i]) >= ScoreOf(list[i + 1])

\* a list of the cosine engine with two different scores, whose documents
\* stand in the model in the other order, while a document scores 0
C3_Witness ==
    /\ engine = "cosine" /\ Searched
    /\ \E r \in 1..Len(results) :
          LET list == results[r].Results
          IN  /\ Len(list) >= 2
              /\ ScoreOf(list[1]) > ScoreOf(list[2])
              /\ list[1][2] > list[2][2]
    /\ \E j \in 1..Len(query_results) : query_results[j].score = 0

\* an additive list with two different scores
C3_WitnessAdditive ==
    /\ engine = "additive"
    /\ \E r \in 1..Len(results) :
          LET list == results[r].Results
          IN  Len(list) >= 2 /\ ScoreOf(list[1]) > ScoreOf(list[2])

\* C4 as stated: in the matrix of Trabalho_04 a weight is 0 exactly where
\* the term does not occur in the document, also for a term of every
\* document.
C4_ZeroIffAbsent ==
    (variant = "T04" /\ ModelBuilt) =>
        \A i \in 1..Len(model.rows) : \A j \in 1..Len(model.columns) :
            (model.rows[i].w[j] = 0) <=> (TermFrequency(i, model.columns[j]) = 0)

\* C4, amended: a weight is 0 exactly where the term does not occur in the
\* document or occurs in every document of the universe (df = N).
C4_ZeroIffAbsentOrEverywhere ==
    (variant = "T04" /\ pc = "SearchEngine") =>
        /\ Len(model.rows) = Len(inverse_list)
        /\ \A i \in 1..Len(model.rows) : \A j \in 1..Len(model.columns) :
              (model.rows[i].w[j] = 0) <=>
                  \/ TermFrequency(i, model.columns[j]) = 0
                  \/ DocumentFrequency(i) = Cardinality(Universe)

\* a matrix with a term of every document, a term missing from a document
\* and a cell that is not 0
C4_Witness ==
    /\ variant = "T04" /\ pc = "SearchEngine"
    /\ Len(model.rows) = Len(inverse_list)
    /\ \E i \in 1..Len(model.rows) :
          /\ DocumentFrequency(i) = Cardinality(Universe)
          /\ \A j \in 1..Len(model.columns) : model.rows[i].w[j] = 0
    /\ \E i \in 1..Len(model.rows) : \E j, k \in 1..Len(model.columns) :
          /\ TermFrequency(i, model.columns[j]) = 0 /\ model.rows[i].w[j] = 0
          /\ TermFrequency(i, model.columns[k]) > 0 /\ model.rows[i].w[k] > 0

\* the records of the worked example and its one query
WorkedExample ==
    << Record(1, [ABSTRACT |-> <<the \o sp \o cat \o sp \o sat>>, EXTRACT |-> <<dog>>]),
       Record(2, [ABSTRACT |-> <<the \o sp \o dog \o sp \o sat>>, EXTRACT |-> <<>>]) >>

WorkedQuery == <<1, upper(cat)>>

\* C5: the worked example run through Trabalho_04 with 'cat' the one query
\* of the collection: postings CAT -> [1], SAT -> [1, 2], DOG -> [2], N = 2,
\* each weight of SAT 0, weight(CAT, 1) = ln 2, weight(CAT, 2) = 0,
\* similarity 1.0 for document 1 and 0 for document 2, and document 1 in the
\* result list.
C5_WorkedExample ==
    (/\ variant = "T04" /\ engine = "cosine" /\ pc \in {"done", "failed"}
     /\ inputs = <<WorkedExample>> /\ queries = <<WorkedQuery>>) =>
        /\ words_dict = << [k |-> upper(cat), v |-> <<1>>],
                           [k |-> upper(sat), v |-> <<1, 2>>],
                           [k |-> upper(dog), v |-> <<2>>] >>
        /\ model.columns = <<1, 2>>
        /\ FirstRow(model, upper(sat)).w = <<0, 0>>
        /\ FirstRow(model, upper(cat)).w = <<LnTable[2], 0>>
        /\ pc = "done"
        /\ Len(query_results) = 2
        /\ query_results[1].score = SimUnit
        /\ query_results[2].score = 0
        /\ Len(results_file) = 1
        /\ \E i \in 1..Len(results_file[1].Results) :
              results_file[1].Results[i][3] = 1

\* C6: the matrix of either assignment has the terms of the inverse list as
\* its rows, one each and in that order, and the documents of the universe
\* as its columns, one each and ascending; every row has a weight for every
\* column.
C6_MatrixShape ==
    (pc = "SearchEngine") =>
        /\ Len(model.rows) = Len(inverse_list)
        /\ \A i \in 1..Len(model.rows) :
              /\ model.rows[i].Term = inverse_list[i].k
              /\ DOMAIN model.rows[i].w = 1..Len(model.columns)
        /\ Range(model.columns) = Universe
        /\ \A j \in 1..Len(model.columns) :
              j < Len(model.columns) => model.columns[j] < model.columns[j + 1]

\* a matrix of three documents whose first row is a term that document 1
\* does not hold
C6_Witness ==
    /\ pc = "SearchEngine"
    /\ Len(model.columns) = 3
    /\ Len(model.rows) >= 3
    /\ 1 \notin Range(PostingList(1))

\* the text get_records_data takes from a record
RecordText(record) ==
    IF record.ABSTRACT # <<>> THEN record.ABSTRACT[1]
    ELSE IF record.EXTRACT # <<>> THEN record.EXTRACT[1]
    ELSE <<>>

\* the surviving normalized tokens of a record: its words in upper case,
\* parted by whitespace and punctuation, that are letters only, longer than
\* two characters and no stopword
Tokens(record) ==
    SelectSeq(split(sub_punct(upper(RecordText(record)), PunctChars04)),
              LAMBDA x : isalpha(x) /\ Len(x) > 2 /\ x \notin Range(get_stopwords))

Records == UNION {Range(inputs[f]) : f \in 1..Len(inputs)}

Postings(t) == IF DictHas(words_dict, t) THEN DictGet(words_dict, t) ELSE <<>>

\* C7: after Trabalho_04's InverseListGenerator went over the input files,
\* every record is listed under every term as many times as the term occurs
\* among its surviving tokens, no list names anything but a record, no term
\* is keyed twice and no list is empty.
C7_PostingsCountTokens ==
    (variant = "T04" /\ pc = "Indexer") =>
        /\ \A i \in 1..Len(words_dict) : words_dict[i].v # <<>>
        /\ \A i, j \in 1..Len(words_dict) :
              words_dict[i].k = words_dict[j].k => i = j
        /\ \A i \in 1..Len(words_dict) :
              Range(words_dict[i].v) \subseteq {r.RECORDNUM : r \in Records}
        /\ \A r \in Records :
              \A t \in Range(DictKeys(words_dict)) \cup Range(Tokens(r)) :
                  Count(Postings(t), r.RECORDNUM) = Count(Tokens(r), t)

\* two files, a term listed for a record of each, twice for one of them,
\* and a record none of whose words is kept
C7_Witness ==
    /\ variant = "T04" /\ pc = "Indexer"
    /\ Len(inputs) = 2
    /\ \E i \in 1..Len(words_dict) :
          /\ inputs[1][1].RECORDNUM \in Range(words_dict[i].v)
          /\ \E n \in 1..Len(inputs[2]) :
                Count(words_dict[i].v, inputs[2][n].RECORDNUM) = 2
    /\ \E r \in Records : RecordText(r) # <<>> /\ Tokens(r) = <<>>

\* C8: the sorted dictionary holds the entries of words_dict, each once,
\* by non-increasing length of the list, and entries of equal length stand
\* as they stood in words_dict.
C8_SortStable ==
    (pc = "Indexer") =>
        /\ Len(inverse_list) = Len(words_dict)
        /\ \A i \in 1..Len(words_dict) :
              Cardinality({j \in 1..Len(inverse_list) :
                              inverse_list[j] = words_dict[i]}) = 1
        /\ \A i, j \in 1..Len(inverse_list) :
              i < j =>
                 /\ Len(inverse_list[i].v) >= Len(inverse_list[j].v)
                 /\ Len(inverse_list[i].v) = Len(inverse_list[j].v) =>
                       DictIndex(words_dict, inverse_list[i].k)
                           < DictIndex(words_dict, inverse_list[j].k)

\* Trabalho_04 sorted a dictionary into another order, with two lists of
\* the same length and a longer one
C8_Witness ==
    /\ variant = "T04" /\ pc = "Indexer"
    /\ inverse_list # words_dict
    /\ \E i, j \in 1..Len(inverse_list) :
          i < j /\ Len(inverse_list[i].v) = Len(inverse_list[j].v)
    /\ \E i, j \in 1..Len(inverse_list) :
          Len(inverse_list[i].v) > Len(inverse_list[j].v)

\* C9: in a Results list of the cosine engine two entries of the same
\* similarity stand by ascending document number.
C9_TiesAscendingId ==
    (engine = "cosine") =>
        \A r \in 1..Len(results) :
            LET list == results[r].Results
            IN  \A i, j \in 1..Len(list) :
                   (i < j /\ ScoreOf(list[i]) = ScoreOf(list[j])) =>
                       list[i][3] < list[j][3]

\* the Results list of the query searched last
LastResults == results[Len(results)].Results

Positive == {j \in 1..Len(query_results) : query_results[j].score > 0}

Kept == {LastResults[i][3] : i \in 1..Len(LastResults)}

\* C10: the Results list of the cosine engine has min(40, P) entries, P the
\* number of documents of positive similarity; the entries are documents of
\* positive similarity, each once, with their similarity; a document of
\* positive similarity that is left out has at most the similarity of any
\* entry.
C10_TopK ==
    (engine = "cosine" /\ Searched) =>
        /\ Len(LastResults) = Min({TopK, Cardinality(Positive)})
        /\ Cardinality(Kept) = Len(LastResults)
        /\ \A i \in 1..Len(LastResults) :
              \E j \in Positive :
                 /\ query_results[j].doc = LastResults[i][3]
                 /\ query_results[j].score = ScoreOf(LastResults[i])
        /\ \A j \in Positive :
              query_results[j].doc \notin Kept =>
                 \A i \in 1..Len(LastResults) :
                    query_results[j].score <= ScoreOf(LastResults[i])

\* more than 40 documents of positive similarity: one left out has less
\* than an entry, one has as much as the last entry, and a document before
\* the one left out has less than it
C10_Witness ==
    /\ engine = "cosine" /\ Searched
    /\ Cardinality(Positive) > TopK
    /\ \E j \in Positive :
          /\ query_results[j].doc \notin Kept
          /\ query_results[j].score < ScoreOf(LastResults[1])
          /\ query_results[j].score = ScoreOf(LastResults[Len(LastResults)])
    /\ \E j, k \in Positive :
          /\ j < k
          /\ query_results[j].doc \notin Kept
          /\ query_results[k].doc \in Kept

(***************************************************************************)
(* Tokens the tables do not know                                           *)
(***************************************************************************)
\* s without its element at n
Without(s, n) == SubSeq(s, 1, n - 1) \o SubSeq(s, n + 1, Len(s))

\* the similarity of the query searched last and of the document of column j
\* when the query is made of these tokens
Similarity(j, tokens) ==
    get_document_similarity_tf_idf(model, TermColumn(queries_index, LastQuery[1]),
                                   model.columns[j], tokens)

\* a token no table has a row of: the normalizer of the queries drops it, so
\* no query of a run holds it
UnknownToken == <<"A", "T">>

\* C11: a token of the query searched last that has no row in the table of
\* query weights or none in the document matrix raises no error and leaves
\* the similarity of every document what it is for the query without that
\* token, and so does a token of no table put before or after the query;
\* the score list of the additive engines is likewise that of the query
\* without a token the matrix has no row of.
C11_UnknownTerm ==
    (pc = "searching" /\ qi > 1) =>
        LET last == LastTokens
            stored == results[Len(results)].Results
            scores(tokens) ==
                IF engine = "cosine"
                THEN [j \in 1..Len(model.columns) |-> Similarity(j, tokens)]
                ELSE ResultTuples(search(model, tokens, kind))
            kept == IF engine = "cosine"
                    THEN [j \in 1..Len(query_results) |-> query_results[j].score]
                    ELSE stored
        IN  /\ engine = "cosine" =>
                  /\ Len(query_results) = Len(model.columns)
                  /\ \A j \in 1..Len(query_results) :
                        query_results[j].doc = model.columns[j]
            /\ \A n \in 1..Len(last) :
                  (\/ ~HasRow(model, last[n])
                   \/ engine = "cosine" /\ ~HasRow(queries_index, last[n])) =>
                      kept = scores(Without(last, n))
            /\ kept = scores(<<UnknownToken>> \o last)
            /\ kept = scores(Append(last, UnknownToken))

\* the query DOG SAT DOG has been searched and a document scores above 0
\* though the matrix has no row of DOG and neither table one of AT
C11_Witness ==
    /\ engine = "cosine" /\ pc = "searching" /\ qi > 1
    /\ LastTokens = <<upper(dog), upper(sat), upper(dog)>>
    /\ ~HasRow(model, upper(dog)) /\ HasRow(queries_index, upper(dog))
    /\ ~HasRow(queries_index, UnknownToken) /\ ~HasRow(model, UnknownToken)
    /\ \E j \in 1..Len(query_results) : query_results[j].score > 0

(***************************************************************************)
(* Queries and documents of length zero                                    *)
(***************************************************************************)
\* the tokens of the query the search loop is at
TokensAt(q) ==
    split(IF variant = "T03" THEN sanitize03(queries[q][2], TRUE)
          ELSE sanitize(queries[q][2], TRUE))

\* C12: a query that normalizes to no token has similarity 0 with every
\* document and an empty result list, and the run goes on to the queries
\* left and to the export: no run of the cosine engine ends by a raise at
\* such a query, and a run that is done holds an empty list for it.
C12_DegenerateVector ==
    /\ (engine = "cosine" /\ pc = "failed") => TokensAt(qi) # <<>>
    /\ (engine = "cosine" /\ pc = "done") =>
          \A q \in 1..Len(queries) :
              TokensAt(q) = <<>> =>
                  /\ results[q].SearchNumber = queries[q][1]
                  /\ results[q].Results = <<>>

(***************************************************************************)
(* The terms of the inverse list                                           *)
(***************************************************************************)
\* C13: every key of the words dictionary the inverse list generator builds,
\* in either variant, is alphabetic, of 3 characters or more and no
\* stopword.
C13_TermKeys ==
    pc = "Indexer" =>
        \A i \in 1..Len(words_dict) :
            /\ isalpha(words_dict[i].k)
            /\ Len(words_dict[i].k) >= 3
            /\ words_dict[i].k \notin Range(get_stopwords)

(***************************************************************************)
(* The normalizer                                                          *)
(***************************************************************************)
\* C14: for each choice of the flags, the tokens of the normalizer on what
\* it returned are the tokens of what it returned: a call on the text
\* returned by a call with the same flag, reading the same stopwords, returns
\* the same tokens.
C14_Idempotent ==
    \A i \in 1..Len(calls) : \A j \in 1..Len(calls) :
        (/\ i < j
         /\ calls[j].string = calls[i].returned
         /\ calls[j].remove_stopwords = calls[i].remove_stopwords
         /\ calls[j].stopwords = calls[i].stopwords) =>
            split(calls[j].returned) = split(calls[i].returned)

\* C16: two calls of the normalizer on the same text with the same flags
\* return the same, whatever happened between the two.
C16_Pure ==
    \A i \in 1..Len(calls) : \A j \in 1..Len(calls) :
        (/\ calls[j].string = calls[i].string
         /\ calls[j].remove_stopwords = calls[i].remove_stopwords) =>
            calls[j].returned = calls[i].returned

(***************************************************************************)
(* The run-once guard                                                      *)
(***************************************************************************)
\* what the run of a stage accumulates and exports
Tables(stage) ==
    CASE stage = "QueryProcessor" ->
             <<qp_processed, qp_expected, processed_file, expected_file>>
      [] stage = "InverseListGenerator" -> <<ilg_inputs, ilg_output, inverse_list>>
      [] stage = "Indexer" -> <<model>>
      [] stage = "SearchEngine" -> <<results, results_file>>

\* the run has completed
Built(stage) == has_run[stage]

\* the last invocation of the run raised part-way
Failed(stage) == ~has_run[stage] /\ outcome[stage] \in {"OSError", "KeyError"}

\* C17: once the run of a stage has completed on an instance, every later
\* invocation ends with the 'already run' ValueError, and no step changes
\* the tables the stage accumulated or the files it exported.
C17_ReentrantRun ==
    [][\A stage \in Stages :
          Built(stage) =>
              /\ Built(stage)'
              /\ Tables(stage)' = Tables(stage)
              /\ outcome'[stage] \in {outcome[stage], "ValueError"}]_vars

\* every stage has run, the search engine with a result, and its run invoked
\* again, the second time over, has raised the ValueError
C17_Witness ==
    /\ \A stage \in Stages : Built(stage)
    /\ reruns > 1
    /\ outcome["SearchEngine"] = "ValueError"
    /\ \E q \in 1..Len(results_file) : results_file[q].Results # <<>>

\* C18: the guard is a state machine over Unbuilt, Built and Failed: from
\* Failed the stage never reaches Built, an invocation ends with the
\* ValueError at once, and the partially accumulated tables stay as they
\* are.
C18_FailedFailsFast ==
    [][\A stage \in Stages :
          Failed(stage) =>
              /\ ~Built(stage)'
              /\ Tables(stage)' = Tables(stage)
              /\ outcome'[stage] \in {outcome[stage], "ValueError"}]_vars

(***************************************************************************)
(* Records without a text                                                  *)
(***************************************************************************)
HasText(record) == record.ABSTRACT # <<>> \/ record.EXTRACT # <<>>

\* get_records_data of the variant that runs
RecordsData(document) ==
    IF variant = "T03" THEN get_records_data03(document)
    ELSE get_records_data(document)

\* C19: for each input file get_records_data returns one entry per record
\* that has an ABSTRACT or an EXTRACT, in the order of the file, keyed by
\* the RECORDNUM, holding the ABSTRACT where there is one and the EXTRACT
\* otherwise; the records that have neither add nothing and change nothing:
\* the entries are those of the file without them.
C19_MissingField ==
    pc = "Indexer" =>
        \A f \in 1..Len(inputs) :
            LET with_text == SelectSeq(inputs[f], HasText)
                records_dict == RecordsData(inputs[f])
            IN  /\ Len(records_dict) = Len(with_text)
                /\ \A n \in 1..Len(with_text) :
                      /\ records_dict[n].k = with_text[n].RECORDNUM
                      /\ records_dict[n].v =
                             IF variant = "T03"
                             THEN get_text03(RecordText(with_text[n]), TRUE)
                             ELSE get_text(RecordText(with_text[n]), TRUE)
                /\ records_dict = RecordsData(with_text)

\* the inverse list generator has gone over a file of a record with both
\* fields, a record with an EXTRACT alone and a record with neither: two
\* entries, and the EXTRACT of the first record (dog) in no posting list
C19_Witness ==
    /\ pc = "Indexer"
    /\ Len(inputs) = 1
    /\ \E a, b, c \in 1..Len(inputs[1]) :
          /\ inputs[1][a].ABSTRACT # <<>> /\ inputs[1][a].EXTRACT = <<dog>>
          /\ inputs[1][b].ABSTRACT = <<>> /\ inputs[1][b].EXTRACT # <<>>
          /\ ~HasText(inputs[1][c])
    /\ Len(RecordsData(inputs[1])) = 2
    /\ ~DictHas(words_dict, upper(dog))
    /\ DictHas(words_dict, upper(cat))

(***************************************************************************)
(* The entries of the results                                              *)
(***************************************************************************)
\* C20: every entry of the Results of every query searched, by the cosine
\* engine as by the additive engines, is a triple of the rank, a document
\* and its score, the score above 0 and the rank the place of the entry in
\* the list, counted from 1.
C20_ResultTriples ==
    \A q \in 1..Len(results) :
        \A i \in 1..Len(results[q].Results) :
            LET entry == results[q].Results[i]
            IN  /\ Len(entry) = 3
                /\ entry[1] = i
                /\ entry[2] \in Range(model.columns)
                /\ entry[3] > 0

(***************************************************************************)
(* The index of the queries                                                *)
(***************************************************************************)
\* the token lists of the queries, by row of the queries table
QueryTokens == [q \in 1..Len(queries) |-> TokensAt(q)]

\* the queries that keep a token
TokenQueries(tokens) == {q \in DOMAIN tokens : tokens[q] # <<>>}

\* tf(t, q): the occurrences of t among the tokens of query q
QueryTermFrequency(tokens, t, q) ==
    Cardinality({n \in 1..Len(tokens[q]) : tokens[q][n] = t})

\* the queries that hold t
QueriesWith(tokens, t) == {q \in TokenQueries(tokens) : t \in Range(tokens[q])}

\* C21: the table of query weights that the start of Trabalho_04's search
\* run builds is the matrix of the document pipeline on the queries: its
\* columns are the queries that keep a token, its rows the terms of these
\* queries, and the cell of a term and a query is (1 + ln tf) * ln(Nq / dfq)
\* where tf counts the term among the tokens of the query, Nq the queries
\* that keep a token and dfq those of them that hold the term.
C21_QueryVectorizer ==
    (variant = "T04" /\ pc = "searching" /\ qi = 1) =>
        LET tokens == QueryTokens
            kept == TokenQueries(tokens)
            terms == UNION {Range(tokens[q]) : q \in kept}
            Nq == Cardinality(kept)
        IN  /\ Len(queries_index.columns) = Nq
            /\ Range(queries_index.columns) = {queries[q][1] : q \in kept}
            /\ Len(queries_index.rows) = Cardinality(terms)
            /\ {queries_index.rows[i].Term : i \in 1..Len(queries_index.rows)} = terms
            /\ \A i \in 1..Len(queries_index.rows) :
                  LET t == queries_index.rows[i].Term
                      dfq == Cardinality(QueriesWith(tokens, t))
                  IN  \A q \in kept :
                         queries_index.rows[i].w[ColumnIndex(queries_index, queries[q][1])]
                             = MultiplicativeWeight(
                                   QueryTermFrequency(tokens, t, q), Nq, dfq)

\* two queries keep a token, one holds DOG twice, and a term has a weight
\* above 0 in one query and is not in the other
C21_Witness ==
    /\ variant = "T04" /\ engine = "cosine" /\ pc = "searching" /\ qi = 1
    /\ Cardinality(TokenQueries(QueryTokens)) = 2
    /\ \E q \in TokenQueries(QueryTokens) :
          QueryTermFrequency(QueryTokens, upper(dog), q) = 2
    /\ \E i \in 1..Len(queries_index.rows) :
          /\ \E j \in 1..Len(queries_index.columns) : queries_index.rows[i].w[j] > 0
          /\ \E q \in TokenQueries(QueryTokens) :
                QueryTermFrequency(QueryTokens, queries_index.rows[i].Term, q) = 0

(***************************************************************************)
(* Each query on its own                                                   *)
(***************************************************************************)
\* the Results of query q computed from the two tables and that query alone
ResultsAlone(q) ==
    LET tokens == TokensAt(q)
    IN  IF engine = "cosine"
        THEN LET weights == TermColumn(queries_index, queries[q][1])
             IN  RankedResults(
                     [j \in 1..Len(model.columns) |->
                         [index |-> j - 1,
                          doc |-> model.columns[j],
                          score |-> get_document_similarity_tf_idf(
                                        model, weights, model.columns[j], tokens)]],
                     kind)
        ELSE ResultTuples(search(model, tokens, kind))

CellWeight(i, j) == model.rows[i].w[j]

\* the occurrences of the term of row i in the document of column j,
\* counted in the posting list of the term
CellFrequency(i, j) ==
    LET list == SelectSeq(inverse_list, LAMBDA e : e.k = model.rows[i].Term)[1].v
    IN  Cardinality({n \in 1..Len(list) : list[n] = model.columns[j]})

\* the documents of the posting list of the term of row i
RowDocumentFrequency(i) ==
    Cardinality(Range(SelectSeq(inverse_list,
                                LAMBDA e : e.k = model.rows[i].Term)[1].v))

\* C24: in the matrix the indexer builds, of two terms that occur equally
\* often in a document, both with a positive weight there, the one found in
\* fewer documents does not weigh less than the other in that document.
C24_RarerWeighsMore ==
    (variant = "T04" /\ pc = "SearchEngine") =>
        \A i1, i2 \in 1..Len(model.rows) : \A j \in 1..Len(model.columns) :
            ( /\ RowDocumentFrequency(i1) < RowDocumentFrequency(i2)
              /\ CellFrequency(i1, j) > 0
              /\ CellFrequency(i1, j) = CellFrequency(i2, j)
              /\ CellWeight(i1, j) > 0 /\ CellWeight(i2, j) > 0 )
            => CellWeight(i1, j) >= CellWeight(i2, j)

\* a document holds once a term of one document and once a term of two,
\* and the first weighs more in it
C24_Witness ==
    /\ variant = "T04" /\ pc = "SearchEngine"
    /\ \E i1, i2 \in 1..Len(model.rows) : \E j \in 1..Len(model.columns) :
          /\ RowDocumentFrequency(i1) = 1 /\ RowDocumentFrequency(i2) = 2
          /\ CellFrequency(i1, j) = 1 /\ CellFrequency(i2, j) = 1
          /\ CellWeight(i2, j) > 0
          /\ CellWeight(i1, j) > CellWeight(i2, j)

(***************************************************************************)
(* The cells of a matrix                                                   *)
(***************************************************************************)
\* C25: in the document matrix and in the table of query weights that
\* create_term_document_matrix builds, the df of every row, counted in the
\* postings the matrix is built from, is at least 1 and at most N, the
\* number of columns; ln(N / df) is not negative and no cell is negative.
C25_CellsNotNegative ==
    (variant = "T04" /\ pc = "searching" /\ qi = 1) =>
        /\ \A i \in 1..Len(model.rows) :
              /\ RowDocumentFrequency(i) >= 1
              /\ RowDocumentFrequency(i) <= Len(model.columns)
              /\ np_log(Len(model.columns), RowDocumentFrequency(i)) >= 0
              /\ \A j \in 1..Len(model.columns) : CellWeight(i, j) >= 0
        /\ LET tokens == QueryTokens
           IN  \A i \in 1..Len(queries_index.rows) :
                  LET dfq == Cardinality(QueriesWith(tokens,
                                                     queries_index.rows[i].Term))
                  IN  /\ dfq >= 1
                      /\ dfq <= Len(queries_index.columns)
                      /\ np_log(Len(queries_index.columns), dfq) >= 0
                      /\ \A j \in 1..Len(queries_index.columns) :
                            queries_index.rows[i].w[j] >= 0

\* a matrix of three documents with a term of all three, a term of one and
\* a cell above 0, and a table of query weights with a cell above 0
C25_Witness ==
    /\ variant = "T04" /\ pc = "searching" /\ qi = 1
    /\ Len(model.columns) = 3
    /\ \E i \in 1..Len(model.rows) : RowDocumentFrequency(i) = 3
    /\ \E i \in 1..Len(model.rows) :
          /\ RowDocumentFrequency(i) = 1
          /\ \E j \in 1..Len(model.columns) : CellWeight(i, j) > 0
    /\ \E i \in 1..Len(queries_index.rows) :
          \E j \in 1..Len(queries_index.columns) : queries_index.rows[i].w[j] > 0

(***************************************************************************)
(* A term of every query                                                   *)
(***************************************************************************)
\* C26: when the run of the cosine engine is over, a term found in every
\* query has the weight 0 in every query; and where there is one query
\* only, every query weight is 0 and the query has its row in the results,
\* with no document in it.
C26_TermOfEveryQuery ==
    (variant = "T04" /\ engine = "cosine" /\ pc \in {"done", "failed"}) =>
        /\ LET tokens == QueryTokens
           IN  \A i \in 1..Len(queries_index.rows) :
                  QueriesWith(tokens, queries_index.rows[i].Term) = 1..Len(queries)
                  => \A j \in 1..Len(queries_index.columns) :
                        queries_index.rows[i].w[j] = 0
        /\ Len(queries) = 1 =>
              /\ \A i \in 1..Len(queries_index.rows) :
                    \A j \in 1..Len(queries_index.columns) :
                        queries_index.rows[i].w[j] = 0
              /\ \A j \in 1..Len(query_results) : query_results[j].score = 0
              /\ Len(results) = 1
              /\ results[1].Results = <<>>

(***************************************************************************)
(* Records no token survives of                                            *)
(***************************************************************************)
\* C27: in the state the indexer leaves, in either variant, a record none
\* of whose tokens survives (no text, or only stopwords, short words and
\* words that are not alphabetic) is in no posting list and has no column
\* in the matrix, and the matrix has as many columns as there are records
\* with a surviving token.
C27_TokenlessRecords ==
    (pc = "SearchEngine") =>
        /\ \A r \in Records :
              Tokens(r) = <<>> =>
                  /\ r.RECORDNUM \notin Universe
                  /\ r.RECORDNUM \notin Range(model.columns)
        /\ Len(model.columns) = Cardinality({r \in Records : Tokens(r) # <<>>})

(***************************************************************************)
(* The additive engines                                                    *)
(***************************************************************************)
\* the sum, over the occurrences in tokens of the terms the model has a row
\* of, of the weight of the term in the document of column j
AdditiveScore(tokens, j) ==
    LET known == SelectSeq(tokens, LAMBDA t : HasRow(model, t))
    IN  SeqSum([n \in 1..Len(known) |-> DocumentWeight(known[n], j)])

\* C28: the list an additive engine keeps for the query searched last names
\* the documents whose score is above 0, each once, with that score, in
\* descending order of score; the score of a document is the sum of the
\* weights in it of the tokens of the query the model has a row of, a token
\* counted as often as it occurs in the query.
C28_AdditiveScore ==
    (engine = "additive" /\ pc = "searching" /\ qi > 1) =>
        LET tokens == TokensAt(qi - 1)
            list == LastResults
            scored == {j \in 1..Len(model.columns) : AdditiveScore(tokens, j) > 0}
        IN  /\ Len(list) = Cardinality(scored)
            /\ {list[i][2] : i \in 1..Len(list)} = {model.columns[j] : j \in scored}
            /\ \A i \in 1..Len(list) :
                  /\ list[i][1] = i
                  /\ \A j \in scored :
                        model.columns[j] = list[i][2]
                        => list[i][3] = AdditiveScore(tokens, j)
                  /\ i < Len(list) => list[i][3] >= list[i + 1][3]

\* a query with a token twice: a document scores twice the weight of that
\* token and once that of the other, a document that scores 0 is left out
C28_Witness ==
    /\ engine = "additive" /\ pc = "searching" /\ qi > 1
    /\ TokensAt(qi - 1) = <<upper(dog), upper(sat), upper(dog)>>
    /\ HasRow(model, upper(dog)) /\ HasRow(model, upper(sat))
    /\ Len(LastResults) < Len(model.columns)
    /\ \E j \in 1..Len(model.columns) :
          /\ DocumentWeight(upper(dog), j) > 0
          /\ DocumentWeight(upper(sat), j) > 0
          /\ LastResults[1][2] = model.columns[j]
          /\ LastResults[1][3] = 2 * DocumentWeight(upper(dog), j)
                                   + DocumentWeight(upper(sat), j)

(***************************************************************************)
(* A row of results for every query                                        *)
(***************************************************************************)
\* C29: when a search run has ended, whatever the engine, the results have
\* as many rows as the queries table, the row of each query at the place of
\* the query and with its number, and the exported file holds these rows; a
\* query no document scores above 0 for has its row, with no Results.
C29_RowPerQuery ==
    (pc \in {"done", "failed"} /\ engine # "none") =>
        /\ Len(results) = Len(queries)
        /\ results_file = results
        /\ \A q \in 1..Len(results) : results[q].SearchNumber = queries[q][1]
        /\ \A q \in 1..Len(queries) :
              TokensAt(q) = <<>> => results[q].Results = <<>>

(***************************************************************************)
(* Instructions given more than once                                       *)
(***************************************************************************)
\* a line that is a comment or holds no "#"
PlainLine(line) == startswith_hash(line) \/ find_hash(line) = -1

\* a valid line: no comment, one "=" and something after it, quotes apart
ValidLine(line) ==
    LET text == replace_quotes(line)
        equals == {i \in 1..Len(text) : text[i] = "="}
    IN  /\ ~startswith_hash(line)
        /\ Cardinality(equals) = 1
        /\ \A i \in equals : i < Len(text)

KeyOf(line) ==
    LET text == replace_quotes(line)
    IN  SubSeq(text, 1, Min({i \in 1..Len(text) : text[i] = "="}) - 1)

ValueOf(line) ==
    LET text == replace_quotes(line)
    IN  SubSeq(text, Min({i \in 1..Len(text) : text[i] = "="}) + 1, Len(text))

\* the values the valid lines give a key, in the order of the lines
ValuesOf(lines, key) ==
    LET given == SelectSeq(lines, LAMBDA l : ValidLine(l) /\ KeyOf(l) = key)
    IN  [i \in 1..Len(given) |-> ValueOf(given[i])]

\* the lines of the file of a stage that its parser has gone through
LinesRead(s) == SubSeq(cfg_file[s], 1, cfg_line[s] - 1)

\* the instruction the inverse list generator takes its output from
OutputInstruction(lines) ==
    IF ValuesOf(lines, STEMMER) # <<>> THEN STEMMER ELSE ESCREVA

====
